---- MODULE Spec2Model ----
(***************************************************************************)
(* Model of the Circe schematic editing engine: the interaction state      *)
(* machine of Schematic::events_handler (src/src/schematic.rs) over the    *)
(* net graph, the device registry and the selection set.                   *)
(*                                                                         *)
(* Points are pairs <<x, y>>.  A transform is the euclid Transform2D       *)
(* record [m11, m12, m21, m22, m31, m32] acting on row vectors.            *)
(* The net graph module (nets.rs) and the current device registry module   *)
(* are not part of the sources at hand; their operations are modelled from *)
(* the specification and are marked so in the source map.                  *)
(***************************************************************************)
EXTENDS Integers, Sequences, FiniteSets, TLC

VARIABLES
    state,      \* SchematicState: Idle / Wiring / Selecting / Moving with payload
    nets,       \* persistent net graph [V, E, tentative]
    devices,    \* registry: device identity -> Device record
    wm,         \* per-class watermark of the registry
    selected,   \* selection set of BaseElement
    selskip,    \* pending skip counter for hit cycling
    last,       \* the committing arm of events_handler that handled the latest
                \* event, "other" for the arms that only update hover flags or payload
                \* and for a delete with nothing selected
    netlist_cir, \* the file netlist.cir: the lines last written, NoFile before
    spmanager,  \* SpManager: tmp, the values of the latest successful simulation
    did,        \* what the latest event did outside the document, in order:
                \* "export" (file written), "simulate" (ngspice run), "op" (applied)
    running,    \* the editor process is alive: FALSE once it has panicked or exited
    prunelog,   \* history, kept once switched on by the initial state: "stale" when
                \* an event changed the registry or the net graph and no prune pass
                \* has run since, "pruned" otherwise; "off" when not kept
    clear_passive, \* the flag events_handler returned for the latest event that ran
                \* an arm, "yes" or "no", kept once switched on by the initial
                \* state; "off" when not kept
    viewport    \* Viewport: state, transform, scale and curpos

vars == <<state, nets, devices, wm, selected, selskip, last, netlist_cir, spmanager, did,
          running, prunelog, clear_passive, viewport>>

----------------------------------------------------------------------------
(* Bounds of the exploration *)

\* number of device placements explored on the line board (sum of the watermarks)
MaxPlaced == 1
\* largest number of clockwise quarter turns of a placed device
MaxTurns == 1
\* the line board: one grid column 0 <= y <= LineMaxY, devices and wires
LineMaxY == 6
LineMaxEdges == 1
\* the square board: 0 <= x, y <= SquareMax, wires only
SquareMax == 3
SquareMaxEdges == 2
\* the simulation board: the line board with this many device placements
SimMaxPlaced == 2
\* the simulator reports node voltages 0..MaxVolt
MaxVolt == 1
\* the hit-test lookup is tried with skip values 0..MaxSkip
MaxSkip == 6
\* the pruning board: the grid row 0 <= x <= PruneMaxX with one point above it
PruneMaxX == 9

LineBoard ==
    [maxx |-> 0, maxy |-> LineMaxY, maxedges |-> LineMaxEdges, maxplaced |-> MaxPlaced]
SimBoard ==
    [maxx |-> 0, maxy |-> LineMaxY, maxedges |-> LineMaxEdges, maxplaced |-> SimMaxPlaced]
SquareBoard ==
    [maxx |-> SquareMax, maxy |-> SquareMax, maxedges |-> SquareMaxEdges, maxplaced |-> 0]

\* cursor positions delivered with the events: grid points one resistor port
\* offset apart, three in a column and three corners of a square
LinePts == {<<0, 0>>, <<0, 3>>, <<0, 6>>}
SquarePts == {<<0, 0>>, <<0, 3>>, <<3, 3>>}
CursorPts == LinePts \cup SquarePts

InBounds(B, p) ==
    /\ p[1] >= 0 /\ p[1] <= B.maxx
    /\ p[2] >= 0 /\ p[2] <= B.maxy

----------------------------------------------------------------------------
(* Geometry: points, boxes, transforms *)

MinOf(S) == CHOOSE m \in S : \A n \in S : m <= n
MaxOf(S) == CHOOSE m \in S : \A n \in S : m >= n

\* euclid Box2D::from_points: the smallest box holding all points
FromPoints(S) ==
    [min |-> <<MinOf({p[1] : p \in S}), MinOf({p[2] : p \in S})>>,
     max |-> <<MaxOf({p[1] : p \in S}), MaxOf({p[2] : p \in S})>>]

\* SSBox::new(a, b): stores the corners as given, without normalising
BoxNew(a, b) == [min |-> a, max |-> b]

\* euclid Box2D::inflate
Inflate(b, w, h) ==
    [min |-> <<b.min[1] - w, b.min[2] - h>>, max |-> <<b.max[1] + w, b.max[2] + h>>]

\* euclid Box2D::intersects (strict on every side)
Intersects(a, b) ==
    /\ a.min[1] < b.max[1] /\ a.max[1] > b.min[1]
    /\ a.min[2] < b.max[2] /\ a.max[2] > b.min[2]

\* closed containment of a point in a box
BoxContains(b, p) ==
    /\ b.min[1] <= p[1] /\ p[1] <= b.max[1]
    /\ b.min[2] <= p[2] /\ p[2] <= b.max[2]

BoxWidth(b) == b.max[1] - b.min[1]
BoxHeight(b) == b.max[2] - b.min[2]

Identity == [m11 |-> 1, m12 |-> 0, m21 |-> 0, m22 |-> 1, m31 |-> 0, m32 |-> 0]

Translation(v) == [m11 |-> 1, m12 |-> 0, m21 |-> 0, m22 |-> 1, m31 |-> v[1], m32 |-> v[2]]

\* euclid Transform2D::transform_point
TransformPoint(t, p) ==
    <<p[1] * t.m11 + p[2] * t.m21 + t.m31, p[1] * t.m12 + p[2] * t.m22 + t.m32>>

\* euclid Transform2D::then: a applied first, b second
Then(a, b) ==
    [m11 |-> a.m11 * b.m11 + a.m12 * b.m21,
     m12 |-> a.m11 * b.m12 + a.m12 * b.m22,
     m21 |-> a.m21 * b.m11 + a.m22 * b.m21,
     m22 |-> a.m21 * b.m12 + a.m22 * b.m22,
     m31 |-> a.m31 * b.m11 + a.m32 * b.m21 + b.m31,
     m32 |-> a.m31 * b.m12 + a.m32 * b.m22 + b.m32]

PreTranslate(t, v) == Then(Translation(v), t)
ThenTranslate(t, v) == Then(t, Translation(v))

\* euclid Transform2D::outer_transformed_box: box of the four transformed corners
OuterTransformedBox(t, b) ==
    FromPoints({TransformPoint(t, b.min), TransformPoint(t, b.max),
                TransformPoint(t, <<b.max[1], b.min[2]>>),
                TransformPoint(t, <<b.min[1], b.max[2]>>)})

\* transforms::SST_CWR, the 90 degree clockwise rotation (x, y) -> (y, -x)
SST_CWR == [m11 |-> 0, m12 |-> -1, m21 |-> 1, m22 |-> 0, m31 |-> 0, m32 |-> 0]

\* the number of clockwise quarter turns in the linear part of a transform
Turns(t) ==
    CASE t.m11 = 1 -> 0
      [] t.m12 = -1 -> 1
      [] t.m11 = -1 -> 2
      [] OTHER -> 3

\* SchematicState::move_transform: sst about pivot ssp0, then translation ssp1 - ssp0
move_transform(ssp0, ssp1, sst) ==
    ThenTranslate(
        ThenTranslate(PreTranslate(sst, <<-ssp0[1], -ssp0[2]>>), <<ssp0[1], ssp0[2]>>),
        <<ssp1[1] - ssp0[1], ssp1[2] - ssp0[2]>>)

----------------------------------------------------------------------------
(* Device classes, graphics templates and device instances *)

Classes == {"R", "G", "V"}

\* variant: a resistor template that lists the port "-" before the port "+"
default_r_MinusFirst ==
    [ports |-> << <<0, -3>>, <<0, 3>> >>, bounds |-> BoxNew(<<-2, 3>>, <<2, -3>>)]

\* Graphics::default_r: ports "+" and "-", bounds given as (-2,3)..(2,-3)
default_r ==
    [ports |-> << <<0, 3>>, <<0, -3>> >>, bounds |-> BoxNew(<<-2, 3>>, <<2, -3>>)]

\* Graphics::default_gnd: one port "gnd"
default_gnd ==
    [ports |-> << <<0, 2>> >>, bounds |-> BoxNew(<<-1, 2>>, <<1, -2>>)]

\* template of the voltage source: a two-port vertical symbol like the resistor's
default_v ==
    [ports |-> << <<0, 3>>, <<0, -3>> >>, bounds |-> BoxNew(<<-2, 3>>, <<2, -3>>)]

\* the class-shared template (DeviceClass::graphics)
Graphics(class) ==
    CASE class = "R" -> default_r
      [] class = "G" -> default_gnd
      [] class = "V" -> default_v

SeqRange(s) == {s[i] : i \in DOMAIN s}

\* Device::new_with_ord_class
new_with_ord_class(ord, class) ==
    [class |-> class, wm |-> ord, transform |-> Identity,
     tentative |-> FALSE, bounds |-> BoxNew(<<0, 0>>, <<0, 0>>),
     nets |-> <<>>, op |-> <<>>]

\* a set_position that leaves the device where the template puts it
set_position_Unmoved(dev, ssp) == dev

\* variant: a set_position that moves the device and keeps the cached box
set_position_KeepsBox(dev, ssp) ==
    [dev EXCEPT !.transform = [@ EXCEPT !.m31 = ssp[1], !.m32 = ssp[2]]]

\* Device::set_position
set_position(dev, ssp) ==
    LET t == [dev.transform EXCEPT !.m31 = ssp[1], !.m32 = ssp[2]]
    IN  [dev EXCEPT !.transform = t,
                    !.bounds = OuterTransformedBox(t, Graphics(dev.class).bounds)]

\* a transform that does not refresh the cached bounds
DeviceTransform_StaleBounds(dev, sst) == [dev EXCEPT !.transform = Then(@, sst)]

\* Interactive for Device: transform
DeviceTransform(dev, sst) ==
    LET t == Then(dev.transform, sst)
    IN  [dev EXCEPT !.transform = t,
                    !.bounds = OuterTransformedBox(t, Graphics(dev.class).bounds)]

\* Device::ports_ssp: the transformed port points, in template order
ports_ssp(dev) ==
    [i \in DOMAIN Graphics(dev.class).ports |->
        TransformPoint(dev.transform, Graphics(dev.class).ports[i])]

\* Device::ports_occupy_ssp
ports_occupy_ssp(dev, ssp) ==
    \E i \in DOMAIN Graphics(dev.class).ports :
        TransformPoint(dev.transform, Graphics(dev.class).ports[i]) = ssp

\* Devices::ports_ssp: the port points of every instance of the registry
DevicesPortsSsp(devs) ==
    UNION {SeqRange(ports_ssp(devs[d])) : d \in DOMAIN devs}

\* Devices::occupies_ssp
DevicesOccupiesSsp(devs, ssp) ==
    \E d \in DOMAIN devs : ports_occupy_ssp(devs[d], ssp)

\* Devices::clear_tentatives
DevicesClearTentatives(devs) ==
    [d \in DOMAIN devs |-> [devs[d] EXCEPT !.tentative = FALSE]]

\* the device position: the translation part of its transform
Position(dev) == <<dev.transform.m31, dev.transform.m32>>

----------------------------------------------------------------------------
(* Net graph *)

\* Ord for NetVertex: by (x, y)
VertexLess(a, b) == a[1] < b[1] \/ (a[1] = b[1] /\ a[2] < b[2])

\* an undirected edge, identified by its unordered vertex pair
Edge(a, b) == IF VertexLess(b, a) THEN <<b, a>> ELSE <<a, b>>

EmptyNets == [V |-> {}, E |-> {}, tentative |-> {}]

\* NetVertex::occupies_ssp over the vertices of the graph
NetsOccupiesSsp(n, ssp) == \E v \in n.V : v = ssp

Neighbours(n, v) ==
    {e[2] : e \in {f \in n.E : f[1] = v}} \cup {e[1] : e \in {f \in n.E : f[2] = v}}

\* v lies strictly between a and b on one horizontal or vertical line
Between(a, v, b) ==
    \/ /\ a[1] = v[1] /\ v[1] = b[1]
       /\ ((a[2] < v[2] /\ v[2] < b[2]) \/ (b[2] < v[2] /\ v[2] < a[2]))
    \/ /\ a[2] = v[2] /\ v[2] = b[2]
       /\ ((a[1] < v[1] /\ v[1] < b[1]) \/ (b[1] < v[1] /\ v[1] < a[1]))

\* a degree-2 vertex joining two collinear edges, not held by a device port
PassThrough(n, ports, v) ==
    /\ v \notin ports
    /\ Cardinality(Neighbours(n, v)) = 2
    /\ \E a, b \in Neighbours(n, v) : a # b /\ Between(a, v, b)

RECURSIVE MergeCollinear(_, _)
\* prune (a): join collinear, endpoint-touching edges into single longer edges
MergeCollinear(n, ports) ==
    IF \E v \in n.V : PassThrough(n, ports, v)
    THEN LET v == CHOOSE w \in n.V : PassThrough(n, ports, w) /\
                     \A u \in n.V : PassThrough(n, ports, u) => ~VertexLess(u, w)
             nb == Neighbours(n, v)
             a == CHOOSE x \in nb : \A y \in nb : ~VertexLess(y, x)
             b == CHOOSE x \in nb : x # a
         IN  MergeCollinear(
                 [V |-> n.V \ {v},
                  E |-> (n.E \ {Edge(a, v), Edge(v, b)}) \cup {Edge(a, b)},
                  tentative |-> n.tentative \ {Edge(a, v), Edge(v, b), Edge(a, b)}],
                 ports)
    ELSE n

\* prune (b): drop the vertices of degree 0 that coincide with no device port
CullVertices(n, ports) ==
    [n EXCEPT !.V = {v \in n.V : Neighbours(n, v) # {} \/ v \in ports}]

\* Nets::prune
Prune(n, ports) == CullVertices(MergeCollinear(n, ports), ports)

\* Nets::route: horizontal first, then vertical; one segment if aligned
route(from, to) ==
    IF from = to THEN [V |-> {from}, E |-> {}, tentative |-> {}]
    ELSE IF from[1] = to[1] \/ from[2] = to[2]
    THEN [V |-> {from, to}, E |-> {Edge(from, to)}, tentative |-> {}]
    ELSE LET corner == <<to[1], from[2]>>
         IN  [V |-> {from, corner, to},
              E |-> {Edge(from, corner), Edge(corner, to)},
              tentative |-> {}]

\* Nets::merge: splice the scratch graph into the persistent graph, then prune
Merge(n, g, ports) ==
    Prune([V |-> n.V \cup g.V, E |-> n.E \cup g.E,
           tentative |-> n.tentative \ g.E], ports)

\* Nets::delete_edge: removing an edge that is not in the graph changes nothing
delete_edge(n, e) ==
    [n EXCEPT !.E = n.E \ {e}, !.tentative = n.tentative \ {e}]

\* the image of an edge under a transform
EdgeImage(e, sst) == Edge(TransformPoint(sst, e[1]), TransformPoint(sst, e[2]))

\* Nets::transform: take edge e out of the graph and put its image in
NetsTransform(n, e, sst) ==
    LET f == EdgeImage(e, sst)
    IN  [V |-> n.V \cup {f[1], f[2]},
         E |-> (n.E \ {e}) \cup {f},
         tentative |-> n.tentative \ {e, f}]

\* Nets::clear_tentatives
NetsClearTentatives(n) == [n EXCEPT !.tentative = {}]

----------------------------------------------------------------------------
(* Hit testing and hover flags *)

NoElement == <<"None", 0>>
NetEdgeEl(e) == <<"NetEdge", e>>
DeviceEl(d) == <<"Device", d>>

EdgeLess(e, f) == VertexLess(e[1], f[1]) \/ (e[1] = f[1] /\ VertexLess(e[2], f[2]))

RECURSIVE EdgesInOrder(_)
\* the edges of a set in the graph's deterministic iteration order
EdgesInOrder(E) ==
    IF E = {} THEN <<>>
    ELSE LET e == CHOOSE x \in E : \A y \in E : ~EdgeLess(y, x)
         IN  <<e>> \o EdgesInOrder(E \ {e})

ClassRank(class) == CASE class = "G" -> 0 [] class = "R" -> 1 [] class = "V" -> 2

DeviceBefore(devs, a, b) ==
    \/ ClassRank(devs[a].class) < ClassRank(devs[b].class)
    \/ (devs[a].class = devs[b].class /\ a < b)

RECURSIVE DevicesInOrder(_, _)
\* the devices of a set in registry order: class sets in turn, each in insertion order
DevicesInOrder(devs, D) ==
    IF D = {} THEN <<>>
    ELSE LET d == CHOOSE x \in D : \A y \in D : y = x \/ DeviceBefore(devs, x, y)
         IN  <<d>> \o DevicesInOrder(devs, D \ {d})

\* the hit region of a net edge: its bounding segment inflated by one grid unit
EdgeContains(e, ssp) == BoxContains(Inflate(FromPoints({e[1], e[2]}), 1, 1), ssp)

\* the hit region of a device: its cached bounding box
DeviceContains(dev, ssp) == BoxContains(dev.bounds, ssp)

\* the elements whose hit region contains ssp: net edges first, then devices
Hits(n, devs, ssp) ==
    LET es == EdgesInOrder({e \in n.E : EdgeContains(e, ssp)})
        ds == DevicesInOrder(devs, {d \in DOMAIN devs : DeviceContains(devs[d], ssp)})
    IN  [i \in 1..Len(es) |-> NetEdgeEl(es[i])] \o [i \in 1..Len(ds) |-> DeviceEl(ds[i])]

\* variant: a lookup that leaves the skip counter alone when nothing is hit
SelectableLoop_NoReset(hits, skip) ==
    IF Len(hits) = 0 THEN [el |-> NoElement, skip |-> skip]
    ELSE [el |-> hits[(skip % Len(hits)) + 1], skip |-> (skip % Len(hits)) + 1]

RECURSIVE SelectablePasses(_, _)
\* Schematic::selectable: the number of passes of its loop
SelectablePasses(hits, skip) ==
    IF skip < Len(hits) \/ Len(hits) = 0 THEN 1
    ELSE 1 + SelectablePasses(hits, skip - Len(hits))

RECURSIVE SelectableLoop(_, _)
\* Schematic::selectable: full passes over the hits, each reducing skip by the count
SelectableLoop(hits, skip) ==
    IF skip < Len(hits) THEN [el |-> hits[skip + 1], skip |-> skip + 1]
    ELSE IF Len(hits) = 0 THEN [el |-> NoElement, skip |-> 0]
    ELSE SelectableLoop(hits, skip - Len(hits))

selectable(n, devs, ssp, skip) == SelectableLoop(Hits(n, devs, ssp), skip)

\* Schematic::clear_tentatives followed by flagging one element
FlagElement(n, devs, el) ==
    [nets |-> [n EXCEPT !.tentative = IF el[1] = "NetEdge" THEN {el[2]} ELSE {}],
     devices |-> [d \in DOMAIN devs |->
                    [devs[d] EXCEPT !.tentative = (el = DeviceEl(d))]]]

\* Schematic::tentative_by_sspoint
tentative_by_sspoint(n, devs, ssp, skip) ==
    LET r == selectable(NetsClearTentatives(n), DevicesClearTentatives(devs), ssp, skip)
        f == FlagElement(n, devs, r.el)
    IN  [nets |-> f.nets, devices |-> f.devices, skip |-> r.skip]

\* variant: the box is inflated as dragged, without ordering its corners first
tentatives_by_ssbox_AsDragged(n, devs, ssb) ==
    LET ssb_p == Inflate(ssb, 1, 1)
    IN  [nets |-> [n EXCEPT !.tentative =
                     {e \in n.E : Intersects(FromPoints({e[1], e[2]}), ssb_p)}],
         devices |-> [d \in DOMAIN devs |->
                        [devs[d] EXCEPT !.tentative = Intersects(devs[d].bounds, ssb_p)]]]

\* Schematic::tentatives_by_ssbox
tentatives_by_ssbox(n, devs, ssb) ==
    LET ssb_p == Inflate(FromPoints({ssb.min, ssb.max}), 1, 1)
    IN  [nets |-> [n EXCEPT !.tentative =
                     {e \in n.E : Intersects(FromPoints({e[1], e[2]}), ssb_p)}],
         devices |-> [d \in DOMAIN devs |->
                        [devs[d] EXCEPT !.tentative = Intersects(devs[d].bounds, ssb_p)]]]

\* the elements carrying the tentative flag (Devices::tentatives, Nets::tentatives)
Tentatives(n, devs) ==
    {DeviceEl(d) : d \in {x \in DOMAIN devs : devs[x].tentative}}
        \cup {NetEdgeEl(e) : e \in n.tentative}

----------------------------------------------------------------------------
(* Schematic operations *)

\* an occupancy test that looks at net vertices only
occupies_ssp_NetsOnly(n, devs, ssp) == NetsOccupiesSsp(n, ssp)

\* Schematic::occupies_ssp
occupies_ssp(n, devs, ssp) == NetsOccupiesSsp(n, ssp) \/ DevicesOccupiesSsp(devs, ssp)

SelectedEdges(sel) == {el[2] : el \in {x \in sel : x[1] = "NetEdge"}}
SelectedDevices(sel) == {el[2] : el \in {x \in sel : x[1] = "Device"}}

\* a promotion that forgets the tentative net edges
tentatives_to_selected_DevicesOnly(sel, n, devs) ==
    sel \cup {DeviceEl(d) : d \in {x \in DOMAIN devs : devs[x].tentative}}

\* Schematic::tentatives_to_selected
tentatives_to_selected(sel, n, devs) == sel \cup Tentatives(n, devs)

\* variant: a prune that joins the edges at one pass-through vertex only
prune_nets_MergesOnce(n, devs) ==
    LET ports == DevicesPortsSsp(devs)
        m == IF \E v \in n.V : PassThrough(n, ports, v)
             THEN LET v == CHOOSE w \in n.V : PassThrough(n, ports, w)
                      nb == Neighbours(n, v)
                      a == CHOOSE x \in nb : TRUE
                      b == CHOOSE x \in nb : x # a
                  IN  [V |-> n.V \ {v},
                       E |-> (n.E \ {Edge(a, v), Edge(v, b)}) \cup {Edge(a, b)},
                       tentative |-> n.tentative \ {Edge(a, v), Edge(v, b), Edge(a, b)}]
             ELSE n
    IN  CullVertices(m, ports)

\* variant: a prune that drops every pass-through vertex with its two edges
prune_nets_CutsAtPassThrough(n, devs) ==
    LET ports == DevicesPortsSsp(devs)
        gone == {v \in n.V : PassThrough(n, ports, v)}
    IN  CullVertices([V |-> n.V \ gone,
                      E |-> {e \in n.E : e[1] \notin gone /\ e[2] \notin gone},
                      tentative |-> {}], ports)

\* Schematic::prune_nets
prune_nets(n, devs) == Prune(n, DevicesPortsSsp(devs))

\* the orders in which a hash set of edges can be iterated
Orderings(S) ==
    {s \in [1..Cardinality(S) -> S] : \A i, j \in DOMAIN s : s[i] = s[j] => i = j}

RECURSIVE TransformEdges(_, _, _)
\* the NetEdge arm of move_selected's loop, over the edges in iteration order
TransformEdges(n, order, sst) ==
    IF order = <<>> THEN n
    ELSE TransformEdges(NetsTransform(n, Head(order), sst), Tail(order), sst)

\* the Device arm of move_selected's loop: transform the device, re-insert it
TransformDevices(devs, sel, sst) ==
    [d \in DOMAIN devs |->
        IF DeviceEl(d) \in sel THEN DeviceTransform(devs[d], sst) ELSE devs[d]]

\* Schematic::delete_selected, the two arms of its loop
DeleteEdges(n, sel) ==
    [n EXCEPT !.E = n.E \ SelectedEdges(sel),
              !.tentative = n.tentative \ SelectedEdges(sel)]

DeleteDevices(devs, sel) ==
    [d \in DOMAIN devs \ SelectedDevices(sel) |-> devs[d]]

----------------------------------------------------------------------------
(* SchematicState and the Schematic as a value *)

Idle == [tag |-> "Idle"]
WiringNone == [tag |-> "Wiring", some |-> FALSE]
WiringSome(g, ssp) == [tag |-> "Wiring", some |-> TRUE, g |-> g, anchor |-> ssp]
Selecting(ssb) == [tag |-> "Selecting", box |-> ssb]
MovingNone == [tag |-> "Moving", some |-> FALSE]
MovingSome(ssp0, ssp1, sst) ==
    [tag |-> "Moving", some |-> TRUE, p0 |-> ssp0, p1 |-> ssp1, t |-> sst]

IsIdle(st) == st.tag = "Idle"
IsWiringNone(st) == st.tag = "Wiring" /\ ~st.some
IsWiringSome(st) == st.tag = "Wiring" /\ st.some
IsSelecting(st) == st.tag = "Selecting"
IsMovingNone(st) == st.tag = "Moving" /\ ~st.some
IsMovingSome(st) == st.tag = "Moving" /\ st.some

\* netlist.cir before the first export
NoFile == <<>>

\* SpManager::new: tmp is None
NoValues == [some |-> FALSE]

\* the fields of struct Schematic (with the registry's watermarks) as one record
Cur ==
    [state |-> state, nets |-> nets, devices |-> devices, wm |-> wm,
     selected |-> selected, selskip |-> selskip]

TotalPlaced(w) == w["R"] + w["G"] + w["V"]

----------------------------------------------------------------------------
(* The arms of Schematic::events_handler, each a function of the Schematic *)

\* variant: the hover starts from the skip counter as it is, not one step back
HoverArm_NoStepBack(S, ssp) ==
    LET h == tentative_by_sspoint(S.nets, S.devices, ssp, S.selskip)
    IN  [S EXCEPT !.nets = h.nets, !.devices = h.devices, !.selskip = h.skip]

\* the hover update that precedes the match on every CursorMoved event
HoverArm(S, ssp) ==
    LET skip == IF S.selskip > 0 THEN S.selskip - 1 ELSE 0
        h == tentative_by_sspoint(S.nets, S.devices, ssp, skip)
    IN  [S EXCEPT !.nets = h.nets, !.devices = h.devices, !.selskip = h.skip]

\* a start of wiring that drops the selection
StartWiringArm_ClearsSelection(S) == [S EXCEPT !.state = WiringNone, !.selected = {}]

\* (_, KeyPressed W)
StartWiringArm(S) == [S EXCEPT !.state = WiringNone]

\* a pointer move that routes into the scratch graph without emptying it
WiringMovedArm_NoClear(S, ssp) ==
    LET r == route(S.state.anchor, ssp)
    IN  [S EXCEPT !.state = WiringSome([V |-> S.state.g.V \cup r.V,
                                        E |-> S.state.g.E \cup r.E,
                                        tentative |-> {}], S.state.anchor)]

\* (Wiring(Some((g, prev_ssp))), CursorMoved)
WiringMovedArm(S, ssp) ==
    [S EXCEPT !.state = WiringSome(route(S.state.anchor, ssp), S.state.anchor)]

\* a wiring click without the test for the previous anchor
WiringPressArm_NoAnchorTest(S, ssp) ==
    IF S.state.some
    THEN IF occupies_ssp(S.nets, S.devices, ssp)
         THEN [S EXCEPT !.nets = Merge(S.nets, S.state.g, DevicesPortsSsp(S.devices)),
                        !.state = WiringNone]
         ELSE [S EXCEPT !.nets = Merge(S.nets, S.state.g, DevicesPortsSsp(S.devices)),
                        !.state = WiringSome(EmptyNets, ssp)]
    ELSE [S EXCEPT !.state = WiringSome(EmptyNets, ssp)]

\* (Wiring(opt_ws), ButtonPressed(Left))
WiringPressArm(S, ssp) ==
    IF S.state.some
    THEN IF ssp = S.state.anchor
         THEN [S EXCEPT !.state = WiringNone]
         ELSE IF occupies_ssp(S.nets, S.devices, ssp)
         THEN [S EXCEPT !.nets = Merge(S.nets, S.state.g, DevicesPortsSsp(S.devices)),
                        !.state = WiringNone]
         ELSE [S EXCEPT !.nets = Merge(S.nets, S.state.g, DevicesPortsSsp(S.devices)),
                        !.state = WiringSome(EmptyNets, ssp)]
    ELSE [S EXCEPT !.state = WiringSome(EmptyNets, ssp)]

\* (Idle, ButtonPressed(Left))
IdlePressArm(S, ssp) == [S EXCEPT !.state = Selecting(BoxNew(ssp, ssp))]

\* (Selecting(ssb), CursorMoved)
SelectingMovedArm(S, ssp) ==
    LET ssb == [S.state.box EXCEPT !.max = ssp]
        f == tentatives_by_ssbox(S.nets, S.devices, ssb)
    IN  [S EXCEPT !.state = Selecting(ssb), !.nets = f.nets, !.devices = f.devices]

\* (Selecting(_), ButtonReleased(Left))
SelectingReleasedArm(S) ==
    [S EXCEPT !.selected = tentatives_to_selected(S.selected, S.nets, S.devices),
              !.state = Idle]

\* variant: every new instance takes the first ordinal of its class
new_instance_FirstOrdinal(S, class) ==
    LET id == TotalPlaced(S.wm) + 1
    IN  [S EXCEPT !.wm = [S.wm EXCEPT ![class] = S.wm[class] + 1],
                  !.devices = [d \in DOMAIN S.devices \cup {id} |->
                                 IF d = id THEN new_with_ord_class(1, class)
                                 ELSE S.devices[d]]]

\* DeviceSet::new_instance behind Devices::new_res / new_gnd / new_vs
new_instance(S, class) ==
    LET ord == S.wm[class] + 1
        id == TotalPlaced(S.wm) + 1
    IN  [S EXCEPT !.wm = [S.wm EXCEPT ![class] = ord],
                  !.devices = [d \in DOMAIN S.devices \cup {id} |->
                                 IF d = id THEN new_with_ord_class(ord, class)
                                 ELSE S.devices[d]]]

\* (Idle, KeyPressed R / G / V): device placement
PlaceArm(S, class, ssp) ==
    LET id == TotalPlaced(S.wm) + 1
        S1 == new_instance(S, class)
    IN  [S1 EXCEPT !.devices = [S1.devices EXCEPT ![id] = set_position(@, ssp)],
                   !.selected = {DeviceEl(id)},
                   !.state = MovingSome(ssp, ssp, Identity)]

\* (_, KeyPressed M)
StartMovingArm(S) == [S EXCEPT !.state = MovingNone]

\* variant: a pointer move that drags both points of the move along
MovingMovedArm_BothPoints(S, ssp) ==
    [S EXCEPT !.state = [S.state EXCEPT !.p0 = ssp, !.p1 = ssp]]

\* (Moving(Some((_ssp0, ssp1, _sst))), CursorMoved)
MovingMovedArm(S, ssp) == [S EXCEPT !.state = [S.state EXCEPT !.p1 = ssp]]

\* variant: the rotate command replaces the pending rotation by one quarter turn
RotateArm_Replace(S) == [S EXCEPT !.state = [S.state EXCEPT !.t = SST_CWR]]

\* (Moving(Some((_ssp0, _ssp1, sst))), KeyPressed R)
RotateArm(S) == [S EXCEPT !.state = [S.state EXCEPT !.t = Then(S.state.t, SST_CWR)]]

\* variant: the moved elements stay selected
move_selected_KeepsSelection(S, sst, order) ==
    [S EXCEPT !.nets = TransformEdges(S.nets, order, sst),
              !.devices = TransformDevices(S.devices, S.selected, sst)]

\* Schematic::move_selected, the selected edges visited in the given order
move_selected(S, sst, order) ==
    [S EXCEPT !.selected = {},
              !.nets = TransformEdges(S.nets, order, sst),
              !.devices = TransformDevices(S.devices, S.selected, sst)]

\* (Moving(opt_pts), ButtonPressed(Left))
MovingPressArm(S, ssp, order) ==
    IF S.state.some
    THEN LET S1 == move_selected(
                       S, move_transform(S.state.p0, S.state.p1, S.state.t), order)
         IN  [S1 EXCEPT !.nets = prune_nets(S1.nets, S1.devices), !.state = Idle]
    ELSE [S EXCEPT !.state = MovingSome(ssp, ssp, Identity)]

\* an Escape that takes the selected devices back out of the registry when it
\* leaves a state other than Idle
EscapeArm_CancelsPlacement(S) ==
    IF IsIdle(S.state) THEN [S EXCEPT !.selected = {}]
    ELSE [S EXCEPT !.state = Idle, !.selected = {},
                   !.devices = [d \in DOMAIN S.devices \ SelectedDevices(S.selected) |->
                                   S.devices[d]]]

\* an Escape that clears the selection in every state
EscapeArm_ClearsAlways(S) == [S EXCEPT !.selected = {}, !.state = Idle]

\* (st, KeyPressed Escape)
EscapeArm(S) ==
    IF IsIdle(S.state) THEN [S EXCEPT !.selected = {}]
    ELSE [S EXCEPT !.state = Idle]

\* a delete that does not prune afterwards
delete_selected_NoPrune(S) ==
    IF IsIdle(S.state)
    THEN [S EXCEPT !.nets = DeleteEdges(S.nets, S.selected),
                   !.devices = DeleteDevices(S.devices, S.selected),
                   !.selected = {}]
    ELSE S

\* variant: a delete that takes the hovered elements along with the selected ones
delete_selected_WithTentatives(S) ==
    IF IsIdle(S.state)
    THEN LET els == S.selected \cup Tentatives(S.nets, S.devices)
             n == DeleteEdges(S.nets, els)
             devs == DeleteDevices(S.devices, els)
         IN  [S EXCEPT !.nets = prune_nets(n, devs), !.devices = devs, !.selected = {}]
    ELSE S

\* Schematic::delete_selected
delete_selected(S) ==
    IF IsIdle(S.state)
    THEN LET n == DeleteEdges(S.nets, S.selected)
             devs == DeleteDevices(S.devices, S.selected)
         IN  [S EXCEPT !.nets = prune_nets(n, devs), !.devices = devs, !.selected = {}]
    ELSE S

\* variant: the cycle command restarts from the first element every time
tentative_next_by_ssp_FromFirst(S, ssp) ==
    LET h == tentative_by_sspoint(S.nets, S.devices, ssp, 0)
    IN  [S EXCEPT !.nets = h.nets, !.devices = h.devices, !.selskip = h.skip]

\* Schematic::tentative_next_by_ssp, the body of (Idle, KeyPressed C)
tentative_next_by_ssp(S, ssp) ==
    LET h == tentative_by_sspoint(S.nets, S.devices, ssp, S.selskip)
    IN  [S EXCEPT !.nets = h.nets, !.devices = h.devices, !.selskip = h.skip]

----------------------------------------------------------------------------
(* Net names, netlist export and operating points *)

\* the vertices a point touches: itself as a vertex, and the ends of a wire it lies on
Touching(n, p) ==
    {v \in n.V : v = p}
        \cup UNION {{e[1], e[2]} : e \in {f \in n.E : Between(f[1], p, f[2])}}

RECURSIVE Reach(_, _)
\* the vertices connected to a set of vertices by wires
Reach(n, S) ==
    LET T == S \cup UNION {Neighbours(n, v) : v \in S}
    IN  IF T = S THEN S ELSE Reach(n, T)

\* the vertices of the component containing p, empty for a point on no wire
Component(n, p) == Reach(n, Touching(n, p))

\* p and q are the same point or on the same component
Connected(n, p, q) == p = q \/ Component(n, p) \cap Component(n, q) # {}

\* the port points of the ground devices
GroundPorts(devs) ==
    UNION {SeqRange(ports_ssp(devs[d])) : d \in {x \in DOMAIN devs : devs[x].class = "G"}}

\* the net at p contains a ground port
IsGround(n, devs, p) == \E q \in GroundPorts(devs) : Connected(n, p, q)

\* the representative of the net at p: the least vertex of its component, or p
NetRep(n, p) ==
    IF Component(n, p) = {} THEN p
    ELSE CHOOSE v \in Component(n, p) : \A w \in Component(n, p) : ~VertexLess(w, v)

\* the nets that get a generated name: those of the wires and of the device ports
\* that contain no ground port
GeneratedNets(n, devs) ==
    {NetRep(n, q) : q \in {x \in n.V \cup DevicesPortsSsp(devs) : ~IsGround(n, devs, x)}}

\* the ground net
GroundNet == "0"

\* Nets::net_at after Nets::pre_netlist: the ground net for a net with a ground
\* port, else a generated name, numbered in vertex order
net_at(n, devs, p) ==
    IF IsGround(n, devs, p) THEN GroundNet
    ELSE "net" \o ToString(
             1 + Cardinality({r \in GeneratedNets(n, devs) : VertexLess(r, NetRep(n, p))}))

\* DeviceClass::id_prefix
id_prefix(class) == class

\* Identifier::ng_id, no custom identifier set
ng_id(dev) == id_prefix(dev.class) \o ToString(dev.wm)

\* DeviceClass::param_summary
param_summary(class) == class \o "-parameters"

\* variant: the net is looked up at the device's position for every port
PortNets_AtPosition(dev, n, devs) ==
    [i \in 1..Len(ports_ssp(dev)) |-> net_at(n, devs, Position(dev))]

\* Device::spice_line: the net names the device keeps
PortNets(dev, n, devs) ==
    [i \in 1..Len(ports_ssp(dev)) |-> net_at(n, devs, ports_ssp(dev)[i])]

\* Device::spice_line: the line, as its space-separated words
spice_line(dev, n, devs) ==
    <<ng_id(dev)>> \o PortNets(dev, n, devs) \o <<param_summary(dev.class)>>

\* the first line of netlist.cir
Header == <<"Netlist", "Created", "by", "Circe">>

\* variant: an export that leaves a line out for a device without wires
NetlistText_WiredOnly(n, devs) ==
    LET ds == DevicesInOrder(devs,
                  {d \in DOMAIN devs :
                      \E i \in 1..Len(ports_ssp(devs[d])) :
                          Component(n, ports_ssp(devs[d])[i]) # {}})
    IN  <<Header>> \o [i \in 1..Len(ds) |-> spice_line(devs[ds[i]], n, devs)] \o << <<>> >>

\* the text written to netlist.cir, as its lines
NetlistText(n, devs) ==
    LET ds == DevicesInOrder(devs, DOMAIN devs)
    IN  <<Header>> \o [i \in 1..Len(ds) |-> spice_line(devs[ds[i]], n, devs)] \o << <<>> >>

\* Schematic::netlist: the document afterwards (each device keeps its net names)
netlist(S) ==
    [S EXCEPT !.devices =
        [d \in DOMAIN S.devices |->
            [S.devices[d] EXCEPT !.nets = PortNets(S.devices[d], S.nets, S.devices)]]]

\* the net names in a netlist: the words between identifier and parameter summary
NamesIn(text) ==
    UNION {{text[i][j] : j \in 2..(Len(text[i]) - 1)} : i \in 2..(Len(text) - 1)}

\* the simulator's answers to a netlist: a value for every net name in it, zero
\* for the ground net (the values themselves are the simulator's business)
Solutions(text) ==
    {f \in [NamesIn(text) -> 0..MaxVolt] : \A nm \in NamesIn(text) : (f[nm] = 0) <=> (nm = GroundNet)}

\* SpManager::cb_send_data: tmp holds the values sent
SomeValues(volts) == [some |-> TRUE, vecsa |-> volts]

\* Device::op: the value of each kept net name that the results hold, in port order
DeviceOp(dev, vals) ==
    LET known == SelectSeq(dev.nets, LAMBDA nm : nm \in DOMAIN vals.vecsa)
    IN  [dev EXCEPT !.op = [i \in 1..Len(known) |-> vals.vecsa[known[i]]]]

\* Schematic::op
op(S, vals) ==
    [S EXCEPT !.devices = [d \in DOMAIN S.devices |-> DeviceOp(S.devices[d], vals)]]

----------------------------------------------------------------------------
(* Events: one action per input event, dispatched as the match of events_handler *)

\* the arms that end in a prune pass: the merges of the wiring click (Nets::merge
\* prunes), the move commit and the delete
PruningArms == {"wiring_end", "wiring_continue", "move_commit", "delete"}

\* the arms that change the registry and do not prune: the placements
UnprunedArms == {"place"}

\* the arms that set clear_passive: every wiring click, the release that ends a
\* selection, the move commit, escape in Idle and delete
ClearingArms == {"wiring_first", "wiring_same", "wiring_end", "wiring_continue",
                 "selecting_released", "move_commit", "escape_idle", "delete"}

\* the Schematic after the event, the arm that ran, whether a prune pass closed
\* the event, and the clear_passive flag the handler returns
SetReturned(S, arm, pruned, clear) ==
    /\ state' = S.state
    /\ nets' = S.nets
    /\ devices' = S.devices
    /\ wm' = S.wm
    /\ selected' = S.selected
    /\ selskip' = S.selskip
    /\ last' = arm
    /\ did' = <<>>
    /\ prunelog' = IF prunelog = "off" THEN "off"
                    ELSE IF pruned THEN "pruned"
                    ELSE IF arm \in UnprunedArms THEN "stale"
                    ELSE prunelog
    /\ clear_passive' = IF clear_passive = "off" THEN "off"
                         ELSE IF clear THEN "yes" ELSE "no"
    /\ UNCHANGED <<netlist_cir, spmanager, running, viewport>>

\* the Schematic after the event, the arm that ran, and whether a prune pass
\* closed the event
SetPruned(S, arm, pruned) == SetReturned(S, arm, pruned, arm \in ClearingArms)

\* the Schematic after the event, and the arm that ran
Set(S, arm) == SetPruned(S, arm, arm \in PruningArms)

\* the exploration keeps the document on the board B
OnBoard(B) ==
    /\ Cardinality(nets.E) <= B.maxedges
    /\ \A v \in nets.V : InBounds(B, v)
    /\ TotalPlaced(wm) <= B.maxplaced
    /\ \A d \in DOMAIN devices :
          InBounds(B, Position(devices[d])) /\ Turns(devices[d].transform) <= MaxTurns

KeyW == Set(StartWiringArm(Cur), "start_wiring")

KeyM == Set(StartMovingArm(Cur), "start_moving")

CursorMoved(ssp) ==
    LET H == HoverArm(Cur, ssp)
    IN  IF IsWiringSome(state) THEN Set(WiringMovedArm(H, ssp), "other")
        ELSE IF IsSelecting(state) THEN Set(SelectingMovedArm(H, ssp), "other")
        ELSE IF IsMovingSome(state) THEN Set(MovingMovedArm(H, ssp), "other")
        ELSE Set(H, "other")

\* which branch of the wiring click runs for a click at ssp
WiringPressBranch(S, ssp) ==
    IF ~S.state.some THEN "wiring_first"
    ELSE IF ssp = S.state.anchor THEN "wiring_same"
    ELSE IF occupies_ssp(S.nets, S.devices, ssp) THEN "wiring_end"
    ELSE "wiring_continue"

LeftPressed(ssp) ==
    IF state.tag = "Wiring"
    THEN Set(WiringPressArm(Cur, ssp), WiringPressBranch(Cur, ssp))
    ELSE IF IsIdle(state) THEN Set(IdlePressArm(Cur, ssp), "other")
    ELSE IF IsMovingSome(state)
    THEN \E order \in Orderings(SelectedEdges(selected)) :
            Set(MovingPressArm(Cur, ssp, order), "move_commit")
    ELSE IF IsMovingNone(state) THEN Set(MovingPressArm(Cur, ssp, <<>>), "other")
    ELSE UNCHANGED vars

LeftReleased ==
    IF IsSelecting(state) THEN Set(SelectingReleasedArm(Cur), "selecting_released")
    ELSE UNCHANGED vars

KeyR(ssp) ==
    IF IsIdle(state)
    THEN Set(PlaceArm(Cur, "R", ssp), "place")
    ELSE IF IsMovingSome(state)
    THEN Set(RotateArm(Cur), "other")
    ELSE UNCHANGED vars

KeyG(ssp) ==
    IF IsIdle(state)
    THEN Set(PlaceArm(Cur, "G", ssp), "place")
    ELSE UNCHANGED vars

KeyV(ssp) ==
    IF IsIdle(state)
    THEN Set(PlaceArm(Cur, "V", ssp), "place")
    ELSE UNCHANGED vars

KeyEscape ==
    IF IsIdle(state) THEN Set(EscapeArm(Cur), "escape_idle")
    ELSE Set(EscapeArm(Cur), "escape")

\* variant: the delete key is served in every state, and deletes as in Idle
KeyDelete_AnyState ==
    SetReturned([delete_selected([Cur EXCEPT !.state = Idle]) EXCEPT !.state = state],
                IF selected = {} THEN "other" ELSE "delete", TRUE, TRUE)

KeyDelete ==
    IF IsIdle(state)
    THEN SetReturned(delete_selected(Cur), IF selected = {} THEN "other" ELSE "delete",
                     TRUE, TRUE)
    ELSE UNCHANGED vars

KeyC(ssp) ==
    IF IsIdle(state) THEN Set(tentative_next_by_ssp(Cur, ssp), "other")
    ELSE UNCHANGED vars

\* the Schematic, the file and the spice manager after an event of Circe::update,
\* and the clear_passive flag events_handler returned to it
SetAll(S, arm, file, sp, effects, clear) ==
    /\ state' = S.state
    /\ nets' = S.nets
    /\ devices' = S.devices
    /\ wm' = S.wm
    /\ selected' = S.selected
    /\ selskip' = S.selskip
    /\ last' = arm
    /\ netlist_cir' = file
    /\ spmanager' = sp
    /\ did' = effects
    /\ clear_passive' = IF clear_passive = "off" THEN "off"
                         ELSE IF clear THEN "yes" ELSE "no"
    /\ UNCHANGED <<running, prunelog, viewport>>

\* (Idle, KeyPressed T): write the netlist
KeyT ==
    IF IsIdle(state)
    THEN SetAll(netlist(Cur), "other", NetlistText(nets, devices), spmanager, <<"export">>,
                FALSE)
    ELSE UNCHANGED vars

\* KeyPressed Space: the dc op arm of events_handler, which writes the netlist in
\* Idle only, followed by Circe::update, which sources netlist.cir, runs op and
\* applies the values held by the spice manager; ok is the simulator's outcome
KeySpace(ok) ==
    LET exported == IsIdle(state)
        S1 == IF exported THEN netlist(Cur) ELSE Cur
        file == IF exported THEN NetlistText(nets, devices) ELSE netlist_cir
    IN  \E volts \in (IF ok /\ file # NoFile THEN Solutions(file) ELSE {<<>>}) :
            LET tmp == IF ok /\ file # NoFile THEN SomeValues(volts) ELSE spmanager.tmp
                S2 == IF tmp.some THEN op(S1, tmp) ELSE S1
            IN  SetAll(S2, "other", file, [tmp |-> tmp],
                       (IF exported THEN <<"export">> ELSE <<>>) \o <<"simulate">>
                           \o (IF tmp.some THEN <<"op">> ELSE <<>>),
                       exported)

----------------------------------------------------------------------------
(* Viewport: the view transform between canvas and viewport space, computed in
   exact rationals; a rational is a pair <<numerator, denominator>> in lowest
   terms with a positive denominator *)

RECURSIVE GCD(_, _)
GCD(a, b) == IF b = 0 THEN a ELSE GCD(b, a % b)

Abs(x) == IF x < 0 THEN -x ELSE x

\* n / d in lowest terms, for d # 0
Q(n, d) ==
    LET g == GCD(Abs(n), Abs(d))
    IN  IF d < 0 THEN <<(-n) \div g, (-d) \div g>> ELSE <<n \div g, d \div g>>

QInt(k) == <<k, 1>>

QNeg(a) == <<-a[1], a[2]>>

QAdd(a, b) ==
    LET g == GCD(a[2], b[2])
    IN  Q(a[1] * (b[2] \div g) + b[1] * (a[2] \div g), (a[2] \div g) * b[2])

QSub(a, b) == QAdd(a, QNeg(b))

QMul(a, b) ==
    LET g1 == GCD(Abs(a[1]), b[2])
        g2 == GCD(Abs(b[1]), a[2])
    IN  Q((a[1] \div g1) * (b[1] \div g2), (a[2] \div g2) * (b[2] \div g1))

\* a / b, for b # 0
QDiv(a, b) == QMul(a, Q(b[2], b[1]))

QLess(a, b) == a[1] * b[2] < b[1] * a[2]

QLeq(a, b) == a[1] * b[2] <= b[1] * a[2]

\* f32::min
QMin(a, b) == IF QLess(b, a) THEN b ELSE a

\* f32::clamp
QClamp(a, lo, hi) == IF QLess(a, lo) THEN lo ELSE IF QLess(hi, a) THEN hi ELSE a

RECURSIVE RootBetween(_, _, _)
\* the largest k in lo..hi with k * k <= n, by bisection, for lo * lo <= n
RootBetween(n, lo, hi) ==
    IF lo = hi THEN lo
    ELSE LET mid == (lo + hi + 1) \div 2
         IN  IF mid * mid <= n THEN RootBetween(n, mid, hi)
             ELSE RootBetween(n, lo, mid - 1)

\* the largest root explored: the roots of the numbers up to its square are exact
MaxRoot == 30000

\* the root of a perfect square, and -1 for any other number
IntRoot(n) ==
    LET k == RootBetween(n, 0, MaxRoot) IN IF k * k = n THEN k ELSE -1

\* no rational: the outcome of a root that is not rational
NoRational == <<0, 0>>

\* f32::sqrt of a non-negative rational
QSqrt(a) ==
    IF a[1] < 0 \/ IntRoot(a[1]) < 0 \/ IntRoot(a[2]) < 0 THEN NoRational
    ELSE <<IntRoot(a[1]), IntRoot(a[2])>>

\* f32::round, half away from zero, cast to the integer coordinate
QRound(a) ==
    IF a[1] >= 0 THEN (2 * a[1] + a[2]) \div (2 * a[2])
    ELSE -((2 * (-a[1]) + a[2]) \div (2 * a[2]))

QPoint(p) == <<QInt(p[1]), QInt(p[2])>>

\* Transform2D::identity
QIdentity ==
    [m11 |-> QInt(1), m12 |-> QInt(0), m21 |-> QInt(0), m22 |-> QInt(1),
     m31 |-> QInt(0), m32 |-> QInt(0)]

\* Transform2D::pre_scale: scale(x, y).then(t)
pre_scale(t, x, y) ==
    [t EXCEPT !.m11 = QMul(x, @), !.m12 = QMul(x, @),
              !.m21 = QMul(y, @), !.m22 = QMul(y, @)]

\* Transform2D::then_scale: t.then(scale(x, y))
then_scale(t, x, y) ==
    [m11 |-> QMul(t.m11, x), m12 |-> QMul(t.m12, y),
     m21 |-> QMul(t.m21, x), m22 |-> QMul(t.m22, y),
     m31 |-> QMul(t.m31, x), m32 |-> QMul(t.m32, y)]

\* Transform2D::then_translate
then_translate(t, v) == [t EXCEPT !.m31 = QAdd(@, v[1]), !.m32 = QAdd(@, v[2])]

\* Transform2D::pre_translate: translation(v).then(t)
pre_translate(t, v) ==
    [t EXCEPT !.m31 = QAdd(QAdd(QMul(v[1], t.m11), QMul(v[2], t.m21)), @),
              !.m32 = QAdd(QAdd(QMul(v[1], t.m12), QMul(v[2], t.m22)), @)]

\* Transform2D::determinant
determinant(t) == QSub(QMul(t.m11, t.m22), QMul(t.m12, t.m21))

\* Transform2D::transform_point
transform_point(t, p) ==
    <<QAdd(QAdd(QMul(p[1], t.m11), QMul(p[2], t.m21)), t.m31),
      QAdd(QAdd(QMul(p[1], t.m12), QMul(p[2], t.m22)), t.m32)>>

\* Transform2D::inverse: none when the determinant is zero
inverse(t) ==
    LET det == determinant(t)
    IN  IF det[1] = 0 THEN [some |-> FALSE]
        ELSE LET inv_det == QDiv(QInt(1), det)
             IN  [some |-> TRUE,
                  t |-> [m11 |-> QMul(inv_det, t.m22),
                         m12 |-> QMul(inv_det, QNeg(t.m12)),
                         m21 |-> QMul(inv_det, QNeg(t.m21)),
                         m22 |-> QMul(inv_det, t.m11),
                         m31 |-> QMul(inv_det, QSub(QMul(t.m21, t.m32),
                                                   QMul(t.m22, t.m31))),
                         m32 |-> QMul(inv_det, QSub(QMul(t.m31, t.m12),
                                                   QMul(t.m11, t.m32)))]]

\* Viewport::MAX_SCALING and MIN_SCALING
MAX_SCALING == QInt(100)
MIN_SCALING == QInt(1)

NoCurpos == [some |-> FALSE]

\* Viewport::default
Viewport_default ==
    [state |-> "None",
     transform |-> pre_scale(QIdentity, QInt(10), QInt(10)),
     scale |-> QInt(10),
     curpos |-> NoCurpos]

\* the outcome of a Viewport method that panicked
ViewPanicked == [state |-> "Panicked"]

\* Viewport::cv_transform: self.transform.inverse().unwrap()
cv_transform(vp) == inverse(vp.transform)

\* Box2D::center, width and height of a box of integer corners
QCenter(b) == <<Q(b.min[1] + b.max[1], 2), Q(b.min[2] + b.max[2], 2)>>
QWidth(b) == QInt(b.max[1] - b.min[1])
QHeight(b) == QInt(b.max[2] - b.min[2])

\* Viewport::curpos_update
curpos_update(vp, opt_csp) ==
    IF ~opt_csp.some THEN [vp EXCEPT !.curpos = NoCurpos]
    ELSE IF ~cv_transform(vp).some THEN ViewPanicked
    ELSE LET csp1 == opt_csp.csp
             vsp1 == transform_point(cv_transform(vp).t, csp1)
             ssp1 == <<QRound(vsp1[1]), QRound(vsp1[2])>>
             moved ==
                IF vp.state = "Panning" /\ vp.curpos.some
                THEN LET csp0 == vp.curpos.csp
                         v == <<QDiv(QSub(csp1[1], csp0[1]), vp.scale),
                                QDiv(QSub(csp1[2], csp0[2]), vp.scale)>>
                     IN  pre_translate(vp.transform, v)
                ELSE vp.transform
         IN  [vp EXCEPT !.transform = moved,
                        !.curpos = [some |-> TRUE, csp |-> csp1, vsp |-> vsp1,
                                    ssp |-> ssp1]]

\* Viewport::display_bounds: both arguments of min are the quotient of the heights
display_bounds(vp, csb, vsb) ==
    LET s == QClamp(QMin(QDiv(QHeight(csb), QHeight(vsb)),
                         QDiv(QHeight(csb), QHeight(vsb))),
                    MIN_SCALING, MAX_SCALING)
        vct == then_scale(QIdentity, s, s)
        c == transform_point(vct, QCenter(vsb))
        v == <<QSub(QCenter(csb)[1], c[1]), QSub(QCenter(csb)[2], c[2])>>
        fitted == [vp EXCEPT !.transform = then_translate(vct, v), !.scale = s]
    IN  IF vp.curpos.some
        THEN curpos_update(fitted, [some |-> TRUE, csp |-> vp.curpos.csp])
        ELSE fitted

\* variant: a zoom that applies the factor without clamping
zoom_Unclamped(vp, scale) ==
    IF ~vp.curpos.some THEN vp
    ELSE LET scaled == then_scale(vp.transform, scale, scale)
             csp1 == transform_point(scaled, vp.curpos.vsp)
             translation == <<QSub(vp.curpos.csp[1], csp1[1]),
                              QSub(vp.curpos.csp[2], csp1[2])>>
             new_transform == then_translate(scaled, translation)
         IN  [vp EXCEPT !.transform = new_transform,
                        !.scale = QSqrt(determinant(new_transform))]

\* Viewport::zoom
zoom(vp, scale) ==
    IF ~vp.curpos.some THEN vp
    ELSE LET scaled_transform == then_scale(vp.transform, scale, scale)
             scaled_determinant == determinant(scaled_transform)
             clamped ==
                IF QLess(scaled_determinant, QMul(MIN_SCALING, MIN_SCALING))
                THEN LET clamped_scale == QDiv(MIN_SCALING, vp.scale)
                     IN  then_scale(vp.transform, clamped_scale, clamped_scale)
                ELSE IF QLeq(scaled_determinant, QMul(MAX_SCALING, MAX_SCALING))
                THEN scaled_transform
                ELSE LET clamped_scale == QDiv(MAX_SCALING, vp.scale)
                     IN  then_scale(vp.transform, clamped_scale, clamped_scale)
             csp1 == transform_point(clamped, vp.curpos.vsp)
             translation == <<QSub(vp.curpos.csp[1], csp1[1]),
                              QSub(vp.curpos.csp[2], csp1[2])>>
             new_transform == then_translate(clamped, translation)
         IN  [vp EXCEPT !.transform = new_transform,
                        !.scale = QSqrt(determinant(new_transform))]

----------------------------------------------------------------------------
(* Specification *)

\* Circe::new: the ngspice library is looked up and loaded (a failure exits or
\* panics before the window opens), then Schematic::default: empty document, Idle
new(loaded) ==
    /\ state = Idle
    /\ nets = EmptyNets
    /\ devices = <<>>
    /\ wm = [c \in Classes |-> 0]
    /\ selected = {}
    /\ selskip = 0
    /\ last = "init"
    /\ netlist_cir = NoFile
    /\ spmanager = [tmp |-> NoValues]
    /\ did = <<>>
    /\ running = loaded
    /\ prunelog = "off"
    /\ clear_passive = "off"
    /\ viewport = Viewport_default

\* the editor once it has started
Init == new(TRUE)

\* the events on the line board
Next ==
    \/ KeyW
    \/ KeyM
    \/ \E ssp \in LinePts : CursorMoved(ssp)
    \/ \E ssp \in LinePts : LeftPressed(ssp) /\ OnBoard(LineBoard)'
    \/ LeftReleased
    \/ \E ssp \in LinePts : KeyR(ssp) /\ OnBoard(LineBoard)'
    \/ \E ssp \in LinePts : KeyG(ssp) /\ OnBoard(LineBoard)'
    \/ \E ssp \in LinePts : KeyV(ssp) /\ OnBoard(LineBoard)'
    \/ KeyEscape
    \/ KeyDelete
    \/ \E ssp \in LinePts : KeyC(ssp)

Spec == Init /\ [][Next]_vars

\* the events on the square board: wiring, selecting, moving and deleting wires
NextWires ==
    \/ KeyW
    \/ KeyM
    \/ \E ssp \in SquarePts : CursorMoved(ssp)
    \/ \E ssp \in SquarePts : LeftPressed(ssp) /\ OnBoard(SquareBoard)'
    \/ LeftReleased
    \/ \E ssp \in SquarePts : KeyR(ssp) /\ OnBoard(SquareBoard)'
    \/ KeyEscape
    \/ KeyDelete
    \/ \E ssp \in SquarePts : KeyC(ssp)

SpecWires == Init /\ [][NextWires]_vars

\* where the simulation board places its devices
GroundAt == <<0, 0>>
ResistorAt == <<0, 6>>

\* the events of the simulation board: placing in Idle, wiring (pointer moves are
\* delivered while a wire is being drawn), committing, deleting, export, simulation
NextSim ==
    \/ KeyW
    \/ \E ssp \in LinePts : IsWiringSome(state) /\ CursorMoved(ssp)
    \/ \E ssp \in LinePts : ~IsIdle(state) /\ LeftPressed(ssp) /\ OnBoard(SimBoard)'
    \/ IsIdle(state) /\ KeyR(ResistorAt) /\ OnBoard(SimBoard)'
    \/ IsIdle(state) /\ KeyG(GroundAt) /\ OnBoard(SimBoard)'
    \/ KeyEscape
    \/ KeyDelete
    \/ KeyT
    \/ \E ok \in BOOLEAN : KeySpace(ok)

SpecSim == Init /\ [][NextSim]_vars

\* a panic or exit of the process: nothing is handled afterwards
Panic ==
    /\ running' = FALSE
    /\ UNCHANGED <<state, nets, devices, wm, selected, selskip, last, netlist_cir,
                   spmanager, did, prunelog, clear_passive, viewport>>

\* (Idle, KeyPressed T) when netlist.cir may not be writable: netlist() ends in
\* fs::write(..).expect("Unable to write file")
KeyTFile(writable) ==
    IF IsIdle(state) /\ ~writable THEN Panic ELSE KeyT

\* KeyPressed Space when netlist.cir may not be writable: the export of the Idle
\* arm comes first and panics before Circe::update reaches the simulator
KeySpaceFile(ok, writable) ==
    IF IsIdle(state) /\ ~writable THEN Panic ELSE KeySpace(ok)

\* the editor with an engine that may be missing and a file that may be read-only
InitEngine == \E loaded \in BOOLEAN : new(loaded)

\* the events of the simulation board, delivered while the process is alive
NextEngine ==
    \/ running /\ KeyW
    \/ \E ssp \in LinePts : running /\ IsWiringSome(state) /\ CursorMoved(ssp)
    \/ \E ssp \in LinePts : running /\ ~IsIdle(state) /\ LeftPressed(ssp) /\ OnBoard(SimBoard)'
    \/ running /\ IsIdle(state) /\ KeyR(ResistorAt) /\ OnBoard(SimBoard)'
    \/ running /\ IsIdle(state) /\ KeyG(GroundAt) /\ OnBoard(SimBoard)'
    \/ running /\ KeyEscape
    \/ running /\ KeyDelete
    \/ \E writable \in BOOLEAN : running /\ KeyTFile(writable)
    \/ \E ok, writable \in BOOLEAN : running /\ KeySpaceFile(ok, writable)

SpecEngine == InitEngine /\ [][NextEngine]_vars

\* the editor once it has started, with the history of prune passes switched on
InitLog ==
    /\ state = Idle
    /\ nets = EmptyNets
    /\ devices = <<>>
    /\ wm = [c \in Classes |-> 0]
    /\ selected = {}
    /\ selskip = 0
    /\ last = "init"
    /\ netlist_cir = NoFile
    /\ spmanager = [tmp |-> NoValues]
    /\ did = <<>>
    /\ running = TRUE
    /\ prunelog = "pruned"
    /\ clear_passive = "off"
    /\ viewport = Viewport_default

\* the events of the simulation board without the simulator
NextLog ==
    \/ KeyW
    \/ \E ssp \in LinePts : IsWiringSome(state) /\ CursorMoved(ssp)
    \/ \E ssp \in LinePts : ~IsIdle(state) /\ LeftPressed(ssp) /\ OnBoard(SimBoard)'
    \/ IsIdle(state) /\ KeyR(ResistorAt) /\ OnBoard(SimBoard)'
    \/ IsIdle(state) /\ KeyG(GroundAt) /\ OnBoard(SimBoard)'
    \/ KeyEscape
    \/ KeyDelete
    \/ KeyT

SpecLog == InitLog /\ [][NextLog]_vars

\* the grid points of the pruning board
PrunePts == {<<x, 0>> : x \in {k \in 0..PruneMaxX : k % 3 = 0}} \cup {<<3, 3>>}

\* the wire segments between neighbouring grid points of the pruning board
UnitEdges ==
    {Edge(ab[1], ab[2]) :
        ab \in {pq \in PrunePts \X PrunePts :
                   \/ (pq[2][1] = pq[1][1] + 3 /\ pq[2][2] = pq[1][2])
                   \/ (pq[2][1] = pq[1][1] /\ pq[2][2] = pq[1][2] + 3)}}

\* Schematic::default
Default ==
    [state |-> Idle, nets |-> EmptyNets, devices |-> <<>>,
     wm |-> [c \in Classes |-> 0], selected |-> {}, selskip |-> 0]

\* the registries of the pruning board: empty, a ground whose port is a point of
\* the row, or a resistor whose lower port is
PruneRegistries ==
    {Default} \cup {PlaceArm(Default, "G", <<x, -2>>) : x \in {3, 6}}
              \cup {PlaceArm(Default, "R", <<3, 3>>)}

\* any graph of unit segments and vertices on the pruning board, pruned or not,
\* with any of the registries, in Idle with nothing selected
InitPrune ==
    \E es \in SUBSET UnitEdges, X \in SUBSET PrunePts, S \in PruneRegistries :
        /\ state = Idle
        /\ nets = [V |-> X \cup {e[1] : e \in es} \cup {e[2] : e \in es},
                   E |-> es, tentative |-> {}]
        /\ devices = S.devices
        /\ wm = S.wm
        /\ selected = {}
        /\ selskip = 0
        /\ last = "init"
        /\ netlist_cir = NoFile
        /\ spmanager = [tmp |-> NoValues]
        /\ did = <<>>
        /\ running = TRUE
        /\ prunelog = "off"
        /\ clear_passive = "off"
        /\ viewport = Viewport_default

\* the commits that prune: delete, and a move started and committed in place
NextPrune ==
    \/ KeyDelete
    \/ KeyM
    \/ ~IsIdle(state) /\ LeftPressed(<<0, 0>>)
    \/ KeyEscape

SpecPrune == InitPrune /\ [][NextPrune]_vars

----------------------------------------------------------------------------
(* Vocabulary of the claims, stated on the document rather than on the handlers *)

\* the device port points of the document
PortPoints == DevicesPortsSsp(devices)

\* P is occupied: a net vertex or a device port of the persistent document is at P
OccupiedAt(p) == p \in nets.V \/ p \in PortPoints

\* two net graphs with the same vertices and the same edges
SameGraph(a, b) == a.V = b.V /\ a.E = b.E

\* the elements carrying the tentative flag
TentativeElements ==
    {NetEdgeEl(e) : e \in nets.tentative}
        \cup {DeviceEl(d) : d \in {x \in DOMAIN devices : devices[x].tentative}}

\* the graph with a set of edges taken out and their images under sst put in
WithImages(n, es, sst) ==
    [V |-> n.V \cup UNION {{EdgeImage(e, sst)[1], EdgeImage(e, sst)[2]} : e \in es},
     E |-> (n.E \ es) \cup {EdgeImage(e, sst) : e \in es},
     tentative |-> {}]

\* the graph with a set of edges taken out
WithoutEdges(n, es) == [V |-> n.V, E |-> n.E \ es, tentative |-> {}]

\* the rotation t about the pivot p0 followed by the translation p1 - p0, on a point
MovePoint(p0, p1, t, q) ==
    LET r == TransformPoint(t, <<q[1] - p0[1], q[2] - p0[2]>>)
    IN  <<r[1] + p0[1] + (p1[1] - p0[1]), r[2] + p0[2] + (p1[2] - p0[2])>>

\* the same, as a transform: linear part of t, translation the image of the origin
MoveAsTransform(p0, p1, t) ==
    LET o == MovePoint(p0, p1, t, <<0, 0>>)
    IN  [m11 |-> t.m11, m12 |-> t.m12, m21 |-> t.m21, m22 |-> t.m22,
         m31 |-> o[1], m32 |-> o[2]]

\* the place command of a class
PlaceKey(class, p) ==
    CASE class = "R" -> KeyR(p)
      [] class = "G" -> KeyG(p)
      [] class = "V" -> KeyV(p)

\* nets, registry and selection are left as they are
DocumentUnchanged ==
    /\ nets' = nets
    /\ devices' = devices
    /\ wm' = wm
    /\ selected' = selected

----------------------------------------------------------------------------
(* C1 *)

\* C1 (as claimed): in Wiring(Some(g, anchor)) a left click at P, where P is
\* occupied or differs from the anchor, merges g into the persistent nets; the
\* new state is Wiring(None) if P was occupied and Wiring(Some(empty, P)) if not.
C1_ClickOccupiedOrOffAnchorMerges ==
    [][\A p \in CursorPts :
        (IsWiringSome(state) /\ (OccupiedAt(p) \/ p # state.anchor) /\ LeftPressed(p)) =>
            /\ SameGraph(nets', Merge(nets, state.g, PortPoints))
            /\ state' = IF OccupiedAt(p) THEN WiringNone ELSE WiringSome(EmptyNets, p)]_vars

\* C1 (amended): in Wiring(Some(g, anchor)) a left click at P different from the
\* anchor merges g into the persistent nets; the new state is Wiring(None) if P
\* was occupied and Wiring(Some(empty, P)) if not.  A click at the anchor merges
\* nothing, occupied or not.
C1_ClickOffAnchorMerges ==
    [][\A p \in CursorPts :
        (IsWiringSome(state) /\ LeftPressed(p)) =>
            IF p # state.anchor
            THEN /\ SameGraph(nets', Merge(nets, state.g, PortPoints))
                 /\ state' = IF OccupiedAt(p) THEN WiringNone
                             ELSE WiringSome(EmptyNets, p)
            ELSE nets' = nets]_vars

\* a wire has just been ended on a device port
C1_Witness ==
    /\ last = "wiring_end"
    /\ IsWiringNone(state)
    /\ \E e \in nets.E : e[1] \in PortPoints \/ e[2] \in PortPoints

----------------------------------------------------------------------------
(* C2 *)

\* C2: a left-press in Moving(Some(p0, p1, t)) applies the move transform (t
\* about the pivot p0, then the translation p1 - p0) to every selected device
\* and every selected net edge and to no unselected device, then prunes, and
\* the new state is Idle.
C2_CommitMovesSelection ==
    [][\A p \in CursorPts :
        (IsMovingSome(state) /\ LeftPressed(p)) =>
            LET mt == MoveAsTransform(state.p0, state.p1, state.t)
            IN  /\ DOMAIN devices' = DOMAIN devices
                /\ \A d \in DOMAIN devices :
                      IF DeviceEl(d) \in selected
                      THEN devices'[d].transform = Then(devices[d].transform, mt)
                      ELSE devices'[d] = devices[d]
                /\ SameGraph(nets', Prune(WithImages(nets, SelectedEdges(selected), mt),
                                          DevicesPortsSsp(devices')))
                /\ state' = Idle]_vars

----------------------------------------------------------------------------
(* C3 *)

\* C3: committing a move of a single selected device with zero rotation shifts
\* its bounding box by exactly p1 - p0, width and height preserved; with exactly
\* one clockwise quarter turn the width and the height of the box are swapped.
C3_CommitMovesBoundingBox ==
    [][\A p \in CursorPts : \A d \in DOMAIN devices :
        (IsMovingSome(state) /\ selected = {DeviceEl(d)} /\ LeftPressed(p)) =>
            LET b == devices[d].bounds
                c == devices'[d].bounds
                dx == state.p1[1] - state.p0[1]
                dy == state.p1[2] - state.p0[2]
            IN  /\ state.t = Identity =>
                      /\ c.min = <<b.min[1] + dx, b.min[2] + dy>>
                      /\ c.max = <<b.max[1] + dx, b.max[2] + dy>>
                      /\ BoxWidth(c) = BoxWidth(b) /\ BoxHeight(c) = BoxHeight(b)
                /\ state.t = SST_CWR =>
                      /\ BoxWidth(c) = BoxHeight(b)
                      /\ BoxHeight(c) = BoxWidth(b)]_vars

\* a move that turned the only device, a resistor (4 wide, 6 high as placed), a
\* quarter turn has been committed, with no net edge in the document, hence
\* none in the selection
C3_Witness ==
    /\ last = "move_commit"
    /\ nets.E = {}
    /\ \E d \in DOMAIN devices :
          /\ devices[d].class = "R"
          /\ Turns(devices[d].transform) = 1
          /\ BoxWidth(devices[d].bounds) = 6
          /\ BoxHeight(devices[d].bounds) = 4

----------------------------------------------------------------------------
(* C4 *)

\* C4: a place command (R, G or V) in Idle adds exactly one new device of that
\* class at the cursor P, makes the selection exactly that device, leaves the
\* nets unchanged and enters Moving(Some(P, P, identity)).
C4_PlaceAddsOneSelectedDevice ==
    [][\A p \in CursorPts : \A class \in Classes :
        (IsIdle(state) /\ PlaceKey(class, p)) =>
            /\ \E d \in DOMAIN devices' \ DOMAIN devices :
                  /\ DOMAIN devices' = DOMAIN devices \cup {d}
                  /\ devices'[d].class = class
                  /\ Position(devices'[d]) = p
                  /\ selected' = {DeviceEl(d)}
            /\ \A e \in DOMAIN devices : devices'[e] = devices[e]
            /\ nets' = nets
            /\ state' = MovingSome(p, p, Identity)]_vars

\* a device has just been placed beside an existing wire and is the selection
C4_Witness ==
    /\ last = "place"
    /\ nets.E # {}
    /\ \E d \in DOMAIN devices :
          /\ selected = {DeviceEl(d)}
          /\ state = MovingSome(Position(devices[d]), Position(devices[d]), Identity)
          /\ Position(devices[d]) # <<0, 0>>

----------------------------------------------------------------------------
(* C5 *)

\* C5: delete in Idle removes every selected net edge and every selected device,
\* leaves the unselected devices unchanged, empties the selection, prunes the
\* nets and stays in Idle.
C5_DeleteRemovesSelection ==
    [][(IsIdle(state) /\ KeyDelete) =>
            /\ DOMAIN devices' = {d \in DOMAIN devices : DeviceEl(d) \notin selected}
            /\ \A d \in DOMAIN devices' : devices'[d] = devices[d]
            /\ SameGraph(nets', Prune(WithoutEdges(nets, SelectedEdges(selected)),
                                      DevicesPortsSsp(devices')))
            /\ \A e \in SelectedEdges(selected) : e \notin nets'.E
            /\ selected' = {}
            /\ state' = Idle]_vars

\* a selection has just been deleted: no edge is left, the unselected device is
\* still there
C5_Witness ==
    /\ last = "delete"
    /\ IsIdle(state)
    /\ selected = {}
    /\ nets.E = {}
    /\ DOMAIN devices # {}

----------------------------------------------------------------------------
(* C6 *)

\* C6: on left-release in Selecting every tentative element is in the selection
\* afterwards, nothing that was neither tentative nor already selected becomes
\* selected, and the new state is Idle.
C6_ReleaseSelectsTentatives ==
    [][(IsSelecting(state) /\ LeftReleased) =>
            /\ TentativeElements \subseteq selected'
            /\ selected' \subseteq selected \cup TentativeElements
            /\ state' = Idle]_vars

\* a box selection has just selected a net edge and a device together
C6_Witness ==
    /\ last = "selecting_released"
    /\ IsIdle(state)
    /\ \E e \in nets.E : NetEdgeEl(e) \in selected /\ e \in nets.tentative
    /\ \E d \in DOMAIN devices : DeviceEl(d) \in selected /\ devices[d].tentative

----------------------------------------------------------------------------
(* C7 *)

\* C7: Escape in Idle empties the selection and stays in Idle; Escape in every
\* other state leads to Idle in one step with the selection unchanged; nets and
\* registry are unchanged in both cases; Escape is possible in every reachable
\* state, so Idle is reachable from each of them.
C7_EscapeLeadsToIdle ==
    /\ [](ENABLED KeyEscape)
    /\ [][KeyEscape =>
            /\ state' = Idle
            /\ nets' = nets /\ devices' = devices /\ wm' = wm
            /\ selected' = IF IsIdle(state) THEN {} ELSE selected]_vars

\* Escape has just left a non-Idle state with a selection in place
C7_Witness ==
    /\ last = "escape"
    /\ IsIdle(state)
    /\ selected # {}

----------------------------------------------------------------------------
(* C8 *)

\* C8: the start-wiring command leads to Wiring(None) and the start-moving
\* command to Moving(None), from any state; nets, registry and selection are
\* unchanged.
C8_StartCommandsOnlySwitchState ==
    [][/\ KeyW => state' = WiringNone /\ DocumentUnchanged
       /\ KeyM => state' = MovingNone /\ DocumentUnchanged]_vars

\* wiring has just been started with wires, a device and a selection in place
C8_Witness ==
    /\ last = "start_wiring"
    /\ IsWiringNone(state)
    /\ selected # {}
    /\ nets.E # {}
    /\ DOMAIN devices # {}

----------------------------------------------------------------------------
(* C9 *)

\* C9: a click at the current anchor in Wiring(Some(g, anchor)) leaves the state
\* Wiring(Some(g, anchor)) and nets, registry and selection unchanged.
C9_ClickOnAnchorIsNoOp ==
    [][\A p \in CursorPts :
        (IsWiringSome(state) /\ p = state.anchor /\ LeftPressed(p)) =>
            state' = state /\ DocumentUnchanged]_vars

----------------------------------------------------------------------------
(* C10 *)

\* C10: a wiring click exactly on the previous anchor creates no segment: the
\* persistent nets keep their vertices and edges, as they are without a merge
\* or a prune, whether or not the anchor is occupied.
C10_ClickOnAnchorAddsNothing ==
    [][\A p \in CursorPts :
        (IsWiringSome(state) /\ p = state.anchor /\ LeftPressed(p)) =>
            nets'.V = nets.V /\ nets'.E = nets.E]_vars

\* the anchor has just been clicked again while wires exist
C10_Witness ==
    /\ last = "wiring_same"
    /\ IsWiringNone(state)
    /\ nets.E # {}

----------------------------------------------------------------------------
(* C11 *)

\* g is an orthogonal path of one or two segments from a to b (a # b): one
\* axis-aligned segment, or a horizontal and a vertical one meeting in a corner
IsOrthogonalPath(g, a, b) ==
    \/ /\ a[1] = b[1] \/ a[2] = b[2]
       /\ g.E = {Edge(a, b)}
       /\ g.V = {a, b}
    \/ /\ a[1] # b[1] /\ a[2] # b[2]
       /\ \E c \in {<<b[1], a[2]>>, <<a[1], b[2]>>} :
             g.E = {Edge(a, c), Edge(c, b)} /\ g.V = {a, c, b}

\* C11: in Wiring(Some(g, anchor)) a pointer move to P replaces the scratch
\* graph by route(anchor, P), a path of one or two orthogonal segments from the
\* anchor to P that contains nothing of the previous scratch, keeps the anchor,
\* and changes no vertex or edge of the persistent net graph.
C11_PointerMoveReroutesScratch ==
    [][\A p \in CursorPts :
        (IsWiringSome(state) /\ CursorMoved(p)) =>
            /\ IsWiringSome(state')
            /\ state'.anchor = state.anchor
            /\ state'.g = route(state.anchor, p)
            /\ p # state.anchor => IsOrthogonalPath(state'.g, state.anchor, p)
            /\ nets'.V = nets.V /\ nets'.E = nets.E]_vars

\* a two-segment scratch path is pending beside persistent wires it shares no
\* edge with
C11_Witness ==
    /\ IsWiringSome(state)
    /\ last = "other"
    /\ Cardinality(state.g.E) = 2
    /\ nets.E # {}
    /\ state.g.E \cap nets.E = {}

----------------------------------------------------------------------------
(* C12: rotating a move in progress *)

\* the four rotations by a multiple of 90 degrees, clockwise, without translation
QuarterTurns ==
    << Identity,
       SST_CWR,
       [m11 |-> -1, m12 |-> 0, m21 |-> 0, m22 |-> -1, m31 |-> 0, m32 |-> 0],
       [m11 |-> 0, m12 |-> 1, m21 |-> -1, m22 |-> 0, m31 |-> 0, m32 |-> 0] >>

\* C12: the rotate command in Moving(Some(p0, p1, t)) replaces t by t followed by
\* one clockwise quarter turn and leaves p0, p1, the nets, the device registry
\* (no resistor is placed) and the selection unchanged; t is always one of the
\* four rotations without translation, and four rotates in a row restore t
C12_RotateComposesQuarterTurn ==
    /\ [](IsMovingSome(state) =>
            /\ \E k \in 1..4 : state.t = QuarterTurns[k]
            /\ RotateArm(RotateArm(RotateArm(RotateArm(Cur)))).state.t = state.t)
    /\ [][\A p \in CursorPts :
            (IsMovingSome(state) /\ KeyR(p)) =>
                /\ IsMovingSome(state')
                /\ state'.p0 = state.p0 /\ state'.p1 = state.p1
                /\ state'.t = Then(state.t, SST_CWR)
                /\ \E k \in 1..4 :
                      state.t = QuarterTurns[k] /\ state'.t = QuarterTurns[(k % 4) + 1]
                /\ nets' = nets /\ devices' = devices /\ wm' = wm
                /\ selected' = selected]_vars

\* a selected resistor is being moved and three quarter turns are pending
C12_Witness ==
    /\ IsMovingSome(state) /\ state.t = QuarterTurns[4] /\ last = "other"
    /\ \E d \in DOMAIN devices : devices[d].class = "R" /\ DeviceEl(d) \in selected

----------------------------------------------------------------------------
(* C13: rubber-band selection *)

\* the closed rectangles with opposite corners a, b and c, d share a grid point
RectanglesMeet(a, b, c, d) ==
    /\ MinOf({a[1], b[1]}) <= MaxOf({c[1], d[1]})
    /\ MinOf({c[1], d[1]}) <= MaxOf({a[1], b[1]})
    /\ MinOf({a[2], b[2]}) <= MaxOf({c[2], d[2]})
    /\ MinOf({c[2], d[2]}) <= MaxOf({a[2], b[2]})

\* the net edges and devices of the document that meet the rectangle a, b
ElementsMeeting(a, b) ==
    {NetEdgeEl(e) : e \in {x \in nets.E : RectanglesMeet(x[1], x[2], a, b)}}
        \cup {DeviceEl(d) : d \in {x \in DOMAIN devices :
                  RectanglesMeet(devices[x].bounds.min, devices[x].bounds.max, a, b)}}

\* C13: a left press at P in Idle enters Selecting with the degenerate box P, P;
\* while Selecting, the first corner stays and the other corner follows the
\* pointer, and after each pointer move the tentative flag is set on exactly the
\* net edges and devices meeting the box, whatever the direction of the drag
C13_DragFlagsElementsInBox ==
    [][\A p \in CursorPts :
        /\ (IsIdle(state) /\ LeftPressed(p)) =>
              /\ IsSelecting(state')
              /\ state'.box.min = p /\ state'.box.max = p
        /\ (IsSelecting(state) /\ CursorMoved(p)) =>
              /\ IsSelecting(state')
              /\ state'.box.min = state.box.min /\ state'.box.max = p
              /\ nets'.E = nets.E /\ DOMAIN devices' = DOMAIN devices
              /\ TentativeElements' = ElementsMeeting(state.box.min, p)]_vars

\* a drag towards smaller coordinates that flags some elements and not others
C13_Witness ==
    /\ IsSelecting(state) /\ last = "other"
    /\ state.box.max[2] < state.box.min[2]
    /\ TentativeElements # {}
    /\ TentativeElements # {NetEdgeEl(e) : e \in nets.E} \cup {DeviceEl(d) : d \in DOMAIN devices}

----------------------------------------------------------------------------
(* C14: the hover flag *)

\* the elements whose hit region contains p
HitSet(p) ==
    {NetEdgeEl(e) : e \in {x \in nets.E : EdgeContains(x, p)}}
        \cup {DeviceEl(d) : d \in {x \in DOMAIN devices : DeviceContains(devices[x], p)}}

\* hovering twice over the same point flags the same element as hovering once
HoverSettles(p) ==
    LET H1 == HoverArm(Cur, p)
        H2 == HoverArm(H1, p)
    IN  /\ Tentatives(H2.nets, H2.devices) = Tentatives(H1.nets, H1.devices)
        /\ H2.selskip = H1.selskip

\* what every pointer move leaves alone: the mode, the selection, the registry
\* keys and the wires (a cheap test that precedes the comparison with the event)
KeepsDocumentShape ==
    /\ last' = "other" /\ state'.tag = state.tag /\ selected' = selected
    /\ wm' = wm /\ nets'.E = nets.E

\* C14 as stated: after a pointer move in any state, exactly one of the elements
\* whose hit region contains the cursor carries the tentative flag whenever there
\* is such an element, and a second move on the same point changes nothing
C14_PointerMoveFlagsOneHit ==
    /\ [](\A p \in LinePts : HoverSettles(p))
    /\ [][\A p \in LinePts :
            (HitSet(p) # {} /\ KeepsDocumentShape /\ CursorMoved(p)) =>
                \E el \in HitSet(p) : TentativeElements' = {el}]_vars

\* C14, amended: the same for a pointer move in every state but Selecting (with
\* nothing under the cursor nothing is flagged); in Selecting the hover flag is
\* replaced in the same step by the flags of the elements meeting the drag box
C14_PointerMoveOutsideSelectingFlagsOneHit ==
    /\ [](\A p \in LinePts : HoverSettles(p))
    /\ [][\A p \in LinePts :
            /\ (~IsSelecting(state) /\ KeepsDocumentShape /\ CursorMoved(p)) =>
                  /\ HitSet(p) # {} => \E el \in HitSet(p) : TentativeElements' = {el}
                  /\ HitSet(p) = {} => TentativeElements' = {}
                  /\ LET H == HoverArm(Cur, p)
                     IN  /\ TentativeElements' = Tentatives(H.nets, H.devices)
                         /\ selskip' = H.selskip
            /\ (IsSelecting(state) /\ CursorMoved(p)) =>
                  TentativeElements' = ElementsMeeting(state.box.min, p)]_vars

\* during a move, one of two overlapping elements carries the hover flag
C14_Witness ==
    /\ IsMovingSome(state) /\ last = "other" /\ selskip >= 1
    /\ \E p \in LinePts :
          /\ Cardinality(HitSet(p)) >= 2
          /\ \E el \in HitSet(p) : TentativeElements = {el}

----------------------------------------------------------------------------
(* C15: cycling through overlapping elements *)

\* C15: with N >= 1 elements under P, a cycle command at P in Idle flags exactly
\* the element at position (skip mod N) + 1 of the hit order (net edges before
\* devices) and sets the skip counter to that position, so that N commands in a
\* row flag each element once and then wrap; the counter never exceeds the
\* number of elements that can be on the board
C15_CycleVisitsEachHitInTurn ==
    /\ [](selskip <= LineMaxEdges + MaxPlaced)
    /\ [][\A p \in CursorPts :
            (IsIdle(state) /\ HitSet(p) # {} /\ KeyC(p)) =>
                LET N == Cardinality(HitSet(p))
                    k == (selskip % N) + 1
                    edges == {el \in HitSet(p) : el[1] = "NetEdge"}
                IN  /\ selskip' = k
                    /\ TentativeElements' = {Hits(nets, devices, p)[k]}
                    /\ TentativeElements' \subseteq HitSet(p)
                    /\ k <= Cardinality(edges) <=> TentativeElements' \subseteq edges]_vars

\* a second cycle command has moved the flag from a wire to the device under it
C15_Witness ==
    /\ IsIdle(state) /\ last = "other" /\ selskip = 2
    /\ \E p \in CursorPts :
          /\ Cardinality(HitSet(p)) = 2
          /\ \E d \in DOMAIN devices :
                TentativeElements = {DeviceEl(d)} /\ DeviceEl(d) \in HitSet(p)
          /\ \E el \in HitSet(p) : el[1] = "NetEdge"

----------------------------------------------------------------------------
(* C16: tentative flags at a commit *)

\* C16: immediately after a selection commit (left release in Selecting) or a
\* move commit (left press in Moving(Some)) no net edge and no device carries the
\* tentative flag; the members of the selection are the flagged elements
\* themselves, so none of them carries it either
C16_NoTentativeFlagAfterCommit ==
    last \in {"selecting_released", "move_commit"} => TentativeElements = {}

----------------------------------------------------------------------------
(* C17: export and simulation happen in Idle only *)

\* the operating-point annotations of the devices
Annotations(devs) == [d \in DOMAIN devs |-> devs[d].op]

\* C17: the simulator is run and values are applied only by an event received in
\* Idle, after the netlist export of the same event (export, simulate, apply, in
\* that order); an event received in any other state writes no netlist, runs no
\* simulator and changes no operating-point annotation
C17_SimulationOnlyFromIdle ==
    [][/\ (\E i \in DOMAIN did' : did'[i] \in {"simulate", "op"}) =>
              /\ IsIdle(state)
              /\ did' \in {<<"export", "simulate">>, <<"export", "simulate", "op">>}
       /\ ~IsIdle(state) =>
              /\ did' = <<>>
              /\ netlist_cir' = netlist_cir
              /\ DOMAIN devices' = DOMAIN devices =>
                    Annotations(devices') = Annotations(devices)]_vars

----------------------------------------------------------------------------
(* C18: the shape of the exported netlist *)

\* line is the netlist line of device dev: identifier, one net name per port in
\* template port order, parameter summary
IsLineOf(line, dev) ==
    LET ports == Graphics(dev.class).ports
    IN  /\ Len(line) = Len(ports) + 2
        /\ line[1] = ng_id(dev)
        /\ \A j \in 1..Len(ports) :
              line[j + 1] = net_at(nets, devices, TransformPoint(dev.transform, ports[j]))
        /\ line[Len(line)] = param_summary(dev.class)

\* the file holds the header, one line for every device of the registry and for
\* nothing else, and a blank last line
WellFormedNetlist(text) ==
    /\ Len(text) = Cardinality(DOMAIN devices) + 2
    /\ text[1] = Header
    /\ text[Len(text)] = <<>>
    /\ \A d \in DOMAIN devices :
          Cardinality({i \in 2..(Len(text) - 1) : IsLineOf(text[i], devices[d])}) = 1
    /\ \A i, j \in 2..(Len(text) - 1) : text[i][1] = text[j][1] => i = j

\* two device ports carry the same net name exactly if they are connected or both
\* grounded, and a grounded port carries the ground net
NamesFollowConnectivity ==
    \A p, q \in DevicesPortsSsp(devices) :
        /\ IsGround(nets, devices, p) <=> net_at(nets, devices, p) = GroundNet
        /\ ~IsGround(nets, devices, p) /\ ~IsGround(nets, devices, q) =>
              (net_at(nets, devices, p) = net_at(nets, devices, q) <=> Connected(nets, p, q))

\* C18: right after an export the file holds one header line, then one line per device of the
\* registry (effective identifier, the net name at each port in template port
\* order, the parameter summary), then one blank line; a deleted device has no
\* line and no device has two
C18_ExportListsEachDeviceOnce ==
    (did # <<>> /\ did[1] = "export") =>
        (WellFormedNetlist(netlist_cir) /\ NamesFollowConnectivity)

\* an export after a deletion: two devices were placed, one is left and wired
C18_Witness ==
    /\ did # <<>> /\ did[1] = "export"
    /\ TotalPlaced(wm) = 2 /\ Cardinality(DOMAIN devices) = 1
    /\ Len(netlist_cir) = 3
    /\ nets.E # {}

----------------------------------------------------------------------------
(* C19: the ground, resistor and wire scenario *)

\* the document of the scenario with resistor r: a ground device at (0,0), the
\* resistor at (0,6), both as placed, and the wire from (0,0) to (0,3)
ScenarioWith(r) ==
    /\ Cardinality(DOMAIN devices) = 2
    /\ devices[r].class = "R" /\ Position(devices[r]) = <<0, 6>>
    /\ devices[r].transform = Translation(<<0, 6>>)
    /\ \E g \in DOMAIN devices :
          devices[g].class = "G" /\ devices[g].transform = Translation(<<0, 0>>)
    /\ nets.E = {Edge(<<0, 0>>, <<0, 3>>)}

\* the lines of the exported file that start with the identifier of device r
LinesOf(r) ==
    {netlist_cir[i] : i \in {j \in 2..(Len(netlist_cir) - 1) :
                                netlist_cir[j][1] = ng_id(devices[r])}}

----------------------------------------------------------------------------
(* C20: a failed simulation *)

----------------------------------------------------------------------------
(* C21: operating points are stored port by port *)

\* the annotation shown at port i of a device: entry i of its op vector, if any
HasAnnotation(dev, i) == i <= Len(dev.op)

----------------------------------------------------------------------------
(* C22: a failing simulator engine and the editor process *)

----------------------------------------------------------------------------
(* C23: the selection set and the document *)

----------------------------------------------------------------------------
(* C24: effective identifiers *)

\* the devices added to the registry by the step
Added == DOMAIN devices' \ DOMAIN devices

----------------------------------------------------------------------------
(* C25: prune is idempotent *)

\* a commit that adds and removes nothing: a delete with nothing selected
EmptyCommit == IsIdle(state) /\ selected = {} /\ KeyDelete

\* the names of the grid points, as a graph resolves them
NamesOn(n) == [p \in PrunePts |-> net_at(n, devices, p)]

\* C25: for every graph and every registry, pruning the pruned graph gives the
\* pruned graph again, with the same vertices, edges and names; and a commit
\* that adds and removes nothing leaves a graph that a further such commit
\* would not change
C25_PruneIsIdempotent ==
    /\ [](LET P == prune_nets(nets, devices)
              PP == prune_nets(P, devices)
          IN  PP.V = P.V /\ PP.E = P.E /\ NamesOn(PP) = NamesOn(P))
    /\ [][EmptyCommit => prune_nets(nets', devices').E = nets'.E
                         /\ prune_nets(nets', devices').V = nets'.V]_vars

\* three unit segments in a row were joined into one wire by a commit that
\* added and removed nothing, and a stray vertex was dropped
C25_Witness ==
    /\ last = "other"
    /\ Edge(<<0, 0>>, <<9, 0>>) \in nets.E
    /\ <<3, 3>> \notin nets.V

----------------------------------------------------------------------------
(* C26: prune preserves connectivity *)

\* C26: when a commit prunes the graph, any two grid points that were connected
\* by wires before resolve to the same net name afterwards, and any two grid
\* points connected afterwards were connected before
C26_PrunePreservesConnectivity ==
    [][EmptyCommit =>
          \A p, q \in PrunePts :
              /\ Connected(nets, p, q) =>
                     net_at(nets', devices', p) = net_at(nets', devices', q)
              /\ Connected(nets', p, q) => Connected(nets, p, q)]_vars

\* a corner wire whose straight part was joined over (6,0) by a commit, with
\* (0,0) on no wire: (6,0) is no vertex any more and still on the wire
C26_Witness ==
    /\ last = "other"
    /\ Edge(<<3, 0>>, <<9, 0>>) \in nets.E
    /\ Edge(<<3, 0>>, <<3, 3>>) \in nets.E
    /\ <<6, 0>> \notin nets.V
    /\ Connected(nets, <<6, 0>>, <<3, 3>>)
    /\ ~Connected(nets, <<0, 0>>, <<6, 0>>)

----------------------------------------------------------------------------
(* C27: the ground net in the exported netlist *)

\* p is a port of a ground device or joined to one by wires
WiredToGround(p) ==
    \E g \in DOMAIN devices :
        /\ devices[g].class = "G"
        /\ \E i \in 1..Len(ports_ssp(devices[g])) :
              Connected(nets, p, ports_ssp(devices[g])[i])

----------------------------------------------------------------------------
(* C28: deleting nothing *)

\* no selected element is in the document: the selection is empty, or holds
\* only edges that are no edges of the graph any more
NothingToDelete ==
    /\ SelectedEdges(selected) \cap nets.E = {}
    /\ SelectedDevices(selected) \cap DOMAIN devices = {}

\* C28: a delete in Idle with nothing selected, or with only elements selected
\* that are no longer in the document, leaves the net graph, the registry and
\* the state as they are, and the editor goes on
C28_DeleteNothingIsNoOp ==
    [][(IsIdle(state) /\ NothingToDelete /\ KeyDelete) =>
            /\ nets' = nets
            /\ devices' = devices
            /\ wm' = wm
            /\ state' = state
            /\ selected' = {}
            /\ running']_vars

\* no device was ever placed, a delete of a selected wire has just run and the
\* wire of the document is still there: the selected wire was a stale one
C28_Witness ==
    /\ last = "delete"
    /\ TotalPlaced(wm) = 0
    /\ nets.E # {}

----------------------------------------------------------------------------
(* C29: a prune pass before every export *)

\* C29: when the netlist is exported, a prune pass has run since the last event
\* that changed the net graph or the device registry
C29_PrunedBeforeExport ==
    (did # <<>> /\ did[1] = "export") => prunelog # "stale"

----------------------------------------------------------------------------
(* C30: the cached bounding box of a device *)

\* the four corners of a box, given in any order of its two points
Corners(b) ==
    {<<b.min[1], b.min[2]>>, <<b.min[1], b.max[2]>>,
     <<b.max[1], b.min[2]>>, <<b.max[1], b.max[2]>>}

\* the smallest box with min <= max that holds the template bounds of the
\* device's class as the device's transform places them
PlacedBounds(dev) ==
    FromPoints({TransformPoint(dev.transform, c) : c \in Corners(Graphics(dev.class).bounds)})

\* C30: between events the cached box of every device of the registry is its
\* transform applied to the template bounds of its class, as a box with
\* min <= max, and never the empty box a new device starts with
C30_CachedBoundsFollowTransform ==
    \A d \in DOMAIN devices :
        /\ devices[d].bounds = PlacedBounds(devices[d])
        /\ devices[d].bounds.min[1] < devices[d].bounds.max[1]
        /\ devices[d].bounds.min[2] < devices[d].bounds.max[2]

\* a device was placed, turned by a quarter and moved away by a commit
C30_Witness ==
    /\ last = "move_commit"
    /\ \E d \in DOMAIN devices :
          /\ Turns(devices[d].transform) = 1
          /\ Position(devices[d]) # <<0, 0>>
          /\ devices[d].bounds.max[1] - devices[d].bounds.min[1] = 6

----------------------------------------------------------------------------
(* C31: entering and tracking a move *)

\* the devices are the same up to their hover flags
SameDevicesButHover ==
    /\ DOMAIN devices' = DOMAIN devices
    /\ \A d \in DOMAIN devices :
          [devices'[d] EXCEPT !.tentative = FALSE] = [devices[d] EXCEPT !.tentative = FALSE]

\* C31: a place command in Idle and a left-press at P in Moving(None) both
\* lead to Moving(Some(P, P, identity)); the left-press changes neither nets,
\* devices nor selection; a pointer move to P in Moving(Some) sets p1 to P and
\* keeps p0, the transform, the wires, the devices and the selection
C31_MovingStartsAtCursor ==
    [][\A P \in LinePts :
          /\ \A c \in Classes :
                (IsIdle(state) /\ PlaceKey(c, P)) => state' = MovingSome(P, P, Identity)
          /\ (IsMovingNone(state) /\ LeftPressed(P)) =>
                (state' = MovingSome(P, P, Identity) /\ DocumentUnchanged)
          /\ (IsMovingSome(state) /\ CursorMoved(P)) =>
                /\ state' = [state EXCEPT !.p1 = P]
                /\ SameGraph(nets', nets)
                /\ SameDevicesButHover
                /\ selected' = selected
                /\ wm' = wm]_vars

\* a move of wires was started by a left-press at (0,3) in Moving(None), no
\* device ever placed, and the pointer has since gone to (0,6)
C31_Witness ==
    /\ IsMovingSome(state)
    /\ state.p0 = <<0, 3>> /\ state.p1 = <<0, 6>> /\ state.t = Identity
    /\ TotalPlaced(wm) = 0

----------------------------------------------------------------------------
(* C34: the hit-test lookup ends *)

\* C34: for every document, cursor point and skip value the lookup ends: with
\* n > 0 elements containing the point it returns the element at place
\* (skip mod n) + 1 of the hits after (skip div n) + 1 passes and leaves the
\* skip counter at that place, never reducing it below zero; with none it
\* returns nothing after one pass and resets the skip counter to 0
C34_SelectableTerminates ==
    \A p \in CursorPts, skip \in 0..MaxSkip :
        LET hits == Hits(nets, devices, p)
            n == Len(hits)
            r == selectable(nets, devices, p, skip)
            passes == SelectablePasses(hits, skip)
        IN  IF n = 0
            THEN r.el = NoElement /\ r.skip = 0 /\ passes = 1
            ELSE /\ r.el \in HitSet(p)
                 /\ r.el = hits[(skip % n) + 1]
                 /\ r.skip = (skip % n) + 1
                 /\ passes = (skip \div n) + 1
                 /\ skip - (passes - 1) * n >= 0

\* a wire and a device both contain a cursor point, so that the lookup takes
\* several passes for the larger skip values, and the hover has flagged one
C34_Witness ==
    /\ last = "other"
    /\ \E p \in CursorPts :
          /\ Len(Hits(nets, devices, p)) = 2
          /\ SelectablePasses(Hits(nets, devices, p), MaxSkip) >= 3
          /\ TentativeElements # {}
          /\ TentativeElements \subseteq HitSet(p)

----------------------------------------------------------------------------
(* C35: the handler's redraw flag against what the passive layer shows *)

\* the editor on the line board, with the flag events_handler returned recorded
InitRedraw ==
    /\ state = Idle
    /\ nets = EmptyNets
    /\ devices = <<>>
    /\ wm = [c \in Classes |-> 0]
    /\ selected = {}
    /\ selskip = 0
    /\ last = "init"
    /\ netlist_cir = NoFile
    /\ spmanager = [tmp |-> NoValues]
    /\ did = <<>>
    /\ running = TRUE
    /\ prunelog = "off"
    /\ clear_passive = "no"
    /\ viewport = Viewport_default

SpecRedraw == InitRedraw /\ [][Next]_vars

\* what Schematic::draw_passive draws of a device: its class, identifier,
\* placement and operating-point annotation
Shown(dev) == [dev EXCEPT !.tentative = FALSE, !.nets = <<>>]

\* the step changes what draw_passive draws: the persistent net graph, the
\* devices of the registry, or the selection set
PassiveChanged ==
    \/ selected' # selected
    \/ DOMAIN devices' # DOMAIN devices
    \/ ~SameGraph(nets', nets)
    \/ \E d \in DOMAIN devices : Shown(devices'[d]) # Shown(devices[d])

\* C35: every event that changes the persistent net graph, the device registry
\* or the selection set makes events_handler return clear_passive = true
C35_PassiveChangeSetsRedraw ==
    [][PassiveChanged => clear_passive' = "yes"]_vars

----------------------------------------------------------------------------
(* C36: the selection after a move commit *)

----------------------------------------------------------------------------
(* C37: a placed device outlives the move that follows the placement *)

\* every port of every selected device is occupied in the state after the step
SelectedPortsOccupied ==
    \A d \in SelectedDevices(selected') :
        /\ d \in DOMAIN devices'
        /\ \A i \in DOMAIN ports_ssp(devices'[d]) :
              occupies_ssp(nets', devices', ports_ssp(devices'[d])[i])

\* C37: a place command puts the new device into the registry at the cursor
\* point as the only selected element; pointer moves and rotations of the
\* following Moving state leave registry and selection alone; and leaving that
\* state with escape, start-wiring or start-moving keeps the device in the
\* registry where it was placed, with its identifier, still the only selected
\* element, and with its ports occupied
C37_PlacedDeviceStays ==
    [][/\ (IsIdle(state) /\ last' = "place") =>
             \E d \in DOMAIN devices' \ DOMAIN devices :
                /\ Position(devices'[d]) = state'.p0
                /\ selected' = {DeviceEl(d)}
                /\ \A o \in DOMAIN devices : devices'[o] = devices[o]
                /\ SelectedPortsOccupied
       /\ (IsMovingSome(state) /\ last' \in {"other", "escape", "start_wiring", "start_moving"}) =>
             /\ SameDevicesButHover
             /\ wm' = wm
             /\ selected' = selected
             /\ SelectedPortsOccupied]_vars

\* the resistor placed at (0,3) is still there after the escape, selected, with
\* nothing else in the document
C37_Witness ==
    /\ last = "escape"
    /\ IsIdle(state)
    /\ nets.E = {}
    /\ \E d \in DOMAIN devices :
          /\ devices[d].class = "R"
          /\ Position(devices[d]) = <<0, 3>>
          /\ selected = {DeviceEl(d)}
          /\ <<0, 6>> \in PortPoints

----------------------------------------------------------------------------
(* C38: events without an arm for the current state *)

\* the events of the line board, and the export key delivered in the states
\* where it has no arm (the export in Idle is explored on the simulation board)
NextFrame ==
    \/ Next
    \/ ~IsIdle(state) /\ KeyT

SpecFrame == Init /\ [][NextFrame]_vars

\* a key, press or release that has no arm of the match for the current state
Unhandled ==
    \/ ~IsIdle(state) /\ (KeyDelete \/ KeyT)
    \/ ~IsIdle(state) /\ \E P \in LinePts : KeyG(P) \/ KeyV(P) \/ KeyC(P)
    \/ ~IsIdle(state) /\ ~IsMovingSome(state) /\ \E P \in LinePts : KeyR(P)
    \/ ~IsSelecting(state) /\ LeftReleased
    \/ IsSelecting(state) /\ \E P \in LinePts : LeftPressed(P)

----------------------------------------------------------------------------
(* C39: what a selection commit adds *)

\* C39: the press that starts Selecting and the pointer moves of Selecting keep
\* the selection set, the release keeps every selected element and adds the
\* flagged ones, and at the press at most one element not yet selected carries
\* the hover flag, so that a release right after the press adds that element
\* and nothing else
C39_SelectionCommitIsAdditive ==
    [][/\ (IsIdle(state) /\ IsSelecting(state')) =>
             /\ selected' = selected
             /\ TentativeElements' = TentativeElements
             /\ Cardinality(TentativeElements \ selected) <= 1
       /\ (IsSelecting(state) /\ IsSelecting(state')) => selected' = selected
       /\ (IsSelecting(state) /\ last' = "selecting_released") =>
             selected' = selected \cup TentativeElements]_vars

----------------------------------------------------------------------------
(* C40: the move commit in 16-bit schematic coordinates *)

\* the range of a schematic coordinate, an i16
MinI16 == -32768
MaxI16 == 32767

InI16(x) == MinI16 <= x /\ x <= MaxI16

\* what an i16 operation stores when its result leaves the range, in a build
\* without overflow checks
Wrap16(x) == ((x - MinI16) % (MaxI16 - MinI16 + 1)) + MinI16

\* x1 * y1 + x2 * y2 + c in i16 overflows in a product or in a partial sum
SumOverflows(x1, y1, x2, y2, c) ==
    \/ ~InI16(x1 * y1)
    \/ ~InI16(x2 * y2)
    \/ ~InI16(x1 * y1 + x2 * y2)
    \/ ~InI16(x1 * y1 + x2 * y2 + c)

\* Transform2D<i16>::then: some entry overflows
ThenOverflows(a, b) ==
    \/ SumOverflows(a.m11, b.m11, a.m12, b.m21, 0)
    \/ SumOverflows(a.m11, b.m12, a.m12, b.m22, 0)
    \/ SumOverflows(a.m21, b.m11, a.m22, b.m21, 0)
    \/ SumOverflows(a.m21, b.m12, a.m22, b.m22, 0)
    \/ SumOverflows(a.m31, b.m11, a.m32, b.m21, b.m31)
    \/ SumOverflows(a.m31, b.m12, a.m32, b.m22, b.m32)

\* Transform2D<i16>::then, every entry wrapped to the range
Then_i16(a, b) ==
    LET t == Then(a, b)
    IN  [m11 |-> Wrap16(t.m11), m12 |-> Wrap16(t.m12), m21 |-> Wrap16(t.m21),
         m22 |-> Wrap16(t.m22), m31 |-> Wrap16(t.m31), m32 |-> Wrap16(t.m32)]

\* SchematicState::move_transform in i16: the transform, and whether the
\* negation of ssp0, the difference ssp1 - ssp0 or a composition overflowed
move_transform_i16(ssp0, ssp1, sst) ==
    LET neg == <<Wrap16(-ssp0[1]), Wrap16(-ssp0[2])>>
        t1 == Then_i16(Translation(neg), sst)
        t2 == Then_i16(t1, Translation(ssp0))
        dif == <<Wrap16(ssp1[1] - ssp0[1]), Wrap16(ssp1[2] - ssp0[2])>>
    IN  [t |-> Then_i16(t2, Translation(dif)),
         overflow |->
            \/ ~InI16(-ssp0[1]) \/ ~InI16(-ssp0[2])
            \/ ThenOverflows(Translation(neg), sst)
            \/ ThenOverflows(t1, Translation(ssp0))
            \/ ~InI16(ssp1[1] - ssp0[1]) \/ ~InI16(ssp1[2] - ssp0[2])
            \/ ThenOverflows(t2, Translation(dif))]

\* the corners of a box wrapped to the range
Box_i16(b) ==
    [min |-> <<Wrap16(b.min[1]), Wrap16(b.min[2])>>,
     max |-> <<Wrap16(b.max[1]), Wrap16(b.max[2])>>]

\* Interactive for Device::transform in i16: the device, and whether the
\* composition or the bounds overflowed
DeviceTransform_i16(dev, sst) ==
    LET t == Then_i16(dev.transform, sst)
        b == OuterTransformedBox(t, Graphics(dev.class).bounds)
    IN  [dev |-> [dev EXCEPT !.transform = t, !.bounds = Box_i16(b)],
         overflow |-> ThenOverflows(dev.transform, sst) \/ b # Box_i16(b)]

\* (Moving(Some(..)), ButtonPressed(Left)) in i16: an overflow panics in a build
\* with overflow checks and wraps in a build without
LeftPressed_i16(checked) ==
    LET mt == move_transform_i16(state.p0, state.p1, state.t)
        sel == SelectedDevices(selected) \cap DOMAIN devices
        devs == [d \in DOMAIN devices |->
                    IF d \in sel THEN DeviceTransform_i16(devices[d], mt.t).dev
                    ELSE devices[d]]
        overflow == mt.overflow
                        \/ \E d \in sel : DeviceTransform_i16(devices[d], mt.t).overflow
        S1 == [Cur EXCEPT !.selected = {},
                          !.nets = TransformEdges(nets, <<>>, mt.t),
                          !.devices = devs]
    IN  IF checked /\ overflow THEN Panic
        ELSE Set([S1 EXCEPT !.nets = prune_nets(S1.nets, S1.devices), !.state = Idle],
                 "move_commit")

\* the coordinates explored: the ends of the range, far points and the origin
Coords16 == {MinI16, -20000, -1, 0, 1, 20000, MaxI16}

\* the device positions explored, far enough inside for the bounds to fit
DeviceCoords16 == {-20000, 0, 20000}

\* a resistor placed and selected, and a move started at a point of the row y = 0
InitMove16 ==
    \E x0 \in Coords16, xd \in DeviceCoords16 :
        /\ state = MovingSome(<<x0, 0>>, <<x0, 0>>, Identity)
        /\ nets = EmptyNets
        /\ devices = <<set_position(new_with_ord_class(1, "R"), <<xd, 0>>)>>
        /\ wm = [c \in Classes |-> IF c = "R" THEN 1 ELSE 0]
        /\ selected = {DeviceEl(1)}
        /\ selskip = 0
        /\ last = "init"
        /\ netlist_cir = NoFile
        /\ spmanager = [tmp |-> NoValues]
        /\ did = <<>>
        /\ running = TRUE
        /\ prunelog = "off"
        /\ clear_passive = "off"
        /\ viewport = Viewport_default

\* pointer moves along the row and the commit, in either kind of build
NextMove16 ==
    \/ \E x1 \in Coords16 : running /\ IsMovingSome(state) /\ CursorMoved(<<x1, 0>>)
    \/ \E checked \in BOOLEAN : running /\ IsMovingSome(state) /\ LeftPressed_i16(checked)

SpecMove16 == InitMove16 /\ [][NextMove16]_vars

\* the selected devices end where the claim puts them
MovedBy(v) ==
    \A d \in SelectedDevices(selected) :
        Position(devices'[d]) = <<Position(devices[d])[1] + v[1], Position(devices[d])[2] + v[2]>>

\* C40: a commit without rotation, with p0, p1, the device positions and the
\* moved positions all within the i16 range, overflows in no step of the move
\* transform and puts every selected device at position + (p1 - p0)
C40_MoveCommitWithoutOverflow ==
    [][(/\ IsMovingSome(state) /\ state.t = Identity
        /\ (last' = "move_commit" \/ ~running')
        /\ \A d \in SelectedDevices(selected) :
              /\ InI16(Position(devices[d])[1] + state.p1[1] - state.p0[1])
              /\ InI16(Position(devices[d])[2] + state.p1[2] - state.p0[2]))
       => /\ running'
          /\ ~move_transform_i16(state.p0, state.p1, state.t).overflow
          /\ MovedBy(<<state.p1[1] - state.p0[1], state.p1[2] - state.p0[2]>>)]_vars

----------------------------------------------------------------------------
(* The viewport under zoom, pan and fit *)

\* the zoom factors explored: zoom out to nothing and tenfold, zoom in twentyfold
ZoomFactors == {QInt(0), Q(1, 10), QInt(20)}

\* the cursor positions explored, in canvas pixels
CanvasPts == {<<0, 0>>, <<40, 0>>}

\* the canvas bounds explored
CanvasBoxes == {BoxNew(<<0, 0>>, <<100, 100>>), BoxNew(<<0, 0>>, <<200, 100>>)}

\* the document bounds explored, inflated by 5 as the fit key does: a resistor
\* at the origin, and a wire from (0,0) to (10,0)
FitBoxes == {Inflate(BoxNew(<<-2, 0>>, <<2, 6>>), 5, 5),
             Inflate(BoxNew(<<0, 0>>, <<10, 0>>), 5, 5)}

\* the largest translation of the view explored, in canvas pixels
MaxPan == 100

\* the finest translation of the view explored: quarters of a pixel
MaxDen == 4

\* the exploration keeps the translation of the view within MaxPan and no
\* finer than 1 / MaxDen
ViewOnBoard(vp) ==
    /\ Abs(vp.transform.m31[1]) <= MaxPan * vp.transform.m31[2]
    /\ Abs(vp.transform.m32[1]) <= MaxPan * vp.transform.m32[2]
    /\ vp.transform.m31[2] <= MaxDen
    /\ vp.transform.m32[2] <= MaxDen

\* the Viewport after a method returned, or the end of the process if it panicked
SetViewport(vp) ==
    IF vp = ViewPanicked THEN Panic
    ELSE /\ viewport' = vp
         /\ ViewOnBoard(vp)
         /\ UNCHANGED <<state, nets, devices, wm, selected, selskip, last, netlist_cir,
                        spmanager, did, running, prunelog, clear_passive>>

\* the wheel: Viewport::zoom
Zoom(scale) == running /\ SetViewport(zoom(viewport, scale))

\* the pointer moves over the canvas, or leaves it: Viewport::curpos_update
PointerAt(opt_csp) == running /\ SetViewport(curpos_update(viewport, opt_csp))

\* the fit key: Viewport::display_bounds with the canvas and the document bounds
Fit(csb, vsb) == running /\ SetViewport(display_bounds(viewport, csb, vsb))

\* the pan button goes down or up: ViewportState::Panning and back
PanStart == running /\ viewport.state = "None"
                /\ SetViewport([viewport EXCEPT !.state = "Panning"])
PanEnd == running /\ viewport.state = "Panning"
              /\ SetViewport([viewport EXCEPT !.state = "None"])

NextView ==
    \/ \E f \in ZoomFactors : Zoom(f)
    \/ \E p \in CanvasPts : PointerAt([some |-> TRUE, csp |-> QPoint(p)])
    \/ PointerAt([some |-> FALSE])
    \/ \E csb \in CanvasBoxes, vsb \in FitBoxes : Fit(csb, vsb)
    \/ PanStart
    \/ PanEnd

SpecView == Init /\ [][NextView]_vars

----------------------------------------------------------------------------
(* C32: the view transform stays an invertible uniform scale with translation *)

----------------------------------------------------------------------------
(* C33: the fit *)

\* the scale at which vsb fits csb in width and in height
FitScale(csb, vsb) ==
    QMin(QDiv(QWidth(csb), QWidth(vsb)), QDiv(QHeight(csb), QHeight(vsb)))

\* the image of the box vsb under t lies within csb
ImageWithin(t, vsb, csb) ==
    LET lo == transform_point(t, QPoint(vsb.min))
        hi == transform_point(t, QPoint(vsb.max))
    IN  /\ QLeq(QInt(csb.min[1]), lo[1]) /\ QLeq(hi[1], QInt(csb.max[1]))
        /\ QLeq(QInt(csb.min[2]), lo[2]) /\ QLeq(hi[2], QInt(csb.max[2]))

\* C33: after display_bounds(csb, vsb) the centre of vsb maps to the centre of
\* csb, the stored cursor position agrees with the new transform, and, when the
\* scale that fits vsb into csb is within [MIN_SCALING, MAX_SCALING], the image
\* of vsb lies within csb in width and in height
C33_FitShowsTheWholeBox ==
    [][\A csb \in CanvasBoxes, vsb \in FitBoxes :
          Fit(csb, vsb) =>
             /\ transform_point(viewport'.transform, QCenter(vsb)) = QCenter(csb)
             /\ viewport'.curpos.some =>
                   viewport'.curpos.vsp =
                       transform_point(cv_transform(viewport').t, viewport'.curpos.csp)
             /\ (QLeq(MIN_SCALING, FitScale(csb, vsb))
                     /\ QLeq(FitScale(csb, vsb), MAX_SCALING)) =>
                   ImageWithin(viewport'.transform, vsb, csb)]_vars

====
